---- MODULE Spec2Model ----
(***************************************************************************)
(* Model of the tool-calling agent: JSONUtils.extract_json, ToolRouter,    *)
(* ToolAgent.run, and the loop of AgentCLI.run with the ThinkingDots       *)
(* worker thread (src/agent/agent.py, src/agent/cli.py,                    *)
(* src/tools/tool_router.py, src/utils/json_utils.py,                      *)
(* src/utils/thinking_dots.py).                                            *)
(*                                                                         *)
(* Text is a sequence of atoms.  The punctuation characters of JSON, the   *)
(* space and the newline are one atom each; a run of other characters      *)
(* (a word, a digit, a literal, a run of three backticks) is one atom.     *)
(* No word atom contains a brace, a bracket, a quote, a colon, a comma or  *)
(* white space, so "the positions where the character { occurs" are the    *)
(* positions of the atom "{".                                              *)
(***************************************************************************)
EXTENDS Integers, Sequences, FiniteSets, TLC

(***************************************************************************)
(* Bounds of the model.                                                    *)
(***************************************************************************)
\* the transcript never grows past this many turns: a run call starts only
\* when its three possible turns still fit
MaxMessages == 7
\* ThinkingDots.start creates at most this many Thread objects
MaxThreads == 2
\* a worker writes at most this many lines of dots
MaxTicks == 2

(***************************************************************************)
(* Python values (the JSON-compatible ones and one that json.dumps         *)
(* rejects).  Every value is a record of the same four fields so that any  *)
(* two values can be compared.                                             *)
(*   kind "str": str = the characters                                      *)
(*   kind "num": str = the digits (repr of the int or float)               *)
(*   kind "lit": str = <<"true">>, <<"false">> or <<"null">>               *)
(*   kind "arr": items = the elements                                      *)
(*   kind "obj": keys = the keys in insertion order, items = their values  *)
(*   kind "pyobj": a Python object json.dumps cannot serialize             *)
(***************************************************************************)
MkStr(s) == [kind |-> "str", str |-> s, keys |-> <<>>, items |-> <<>>]
MkNum(s) == [kind |-> "num", str |-> s, keys |-> <<>>, items |-> <<>>]
MkLit(s) == [kind |-> "lit", str |-> <<s>>, keys |-> <<>>, items |-> <<>>]
MkArr(xs) == [kind |-> "arr", str |-> <<>>, keys |-> <<>>, items |-> xs]
MkObj(ks, vs) == [kind |-> "obj", str |-> <<>>, keys |-> ks, items |-> vs]
PyObject == [kind |-> "pyobj", str |-> <<>>, keys |-> <<>>, items |-> <<>>]
None == MkLit("null")

\* position of key k in the key sequence ks, 0 when absent
KeyIndex(ks, k) ==
    IF \E i \in 1..Len(ks) : ks[i] = k
    THEN CHOOSE i \in 1..Len(ks) : ks[i] = k
    ELSE 0

\* `k in obj`
HasKey(obj, k) == KeyIndex(obj.keys, k) # 0

\* obj.get(k): None when absent
DictGet(obj, k) ==
    IF HasKey(obj, k) THEN obj.items[KeyIndex(obj.keys, k)] ELSE None

\* obj[k] = v: a repeated key keeps its place and takes the new value
DictPut(obj, k, v) ==
    IF HasKey(obj, k)
    THEN MkObj(obj.keys, [obj.items EXCEPT ![KeyIndex(obj.keys, k)] = v])
    ELSE MkObj(Append(obj.keys, k), Append(obj.items, v))

\* Python truth value of a JSON-decoded value
AllZero(s) == \A i \in 1..Len(s) : s[i] \in {"0", "."}
Truthy(v) ==
    CASE v.kind = "str" -> v.str # <<>>
      [] v.kind = "num" -> ~AllZero(v.str)
      [] v.kind = "lit" -> v.str = <<"true">>
      [] v.kind = "arr" -> v.items # <<>>
      [] v.kind = "obj" -> v.keys # <<>>
      [] OTHER -> TRUE

(***************************************************************************)
(* json.JSONDecoder.raw_decode: parse one complete JSON value starting     *)
(* exactly at position i, ignoring whatever follows it.                    *)
(***************************************************************************)
Whitespace == {" ", "\n"}
Digits == {"0", "1"}
Literals == {"true", "false", "null"}
Quote == "\""
Backslash == "\\"

ParseFail == [ok |-> FALSE, val |-> None, end |-> 0]
ParseOk(v, e) == [ok |-> TRUE, val |-> v, end |-> e]

RECURSIVE SkipWs(_, _)
SkipWs(text, i) ==
    IF i <= Len(text) /\ text[i] \in Whitespace THEN SkipWs(text, i + 1) ELSE i

RECURSIVE DigitRunEnd(_, _)
DigitRunEnd(text, i) ==
    IF i <= Len(text) /\ text[i] \in Digits THEN DigitRunEnd(text, i + 1) ELSE i

\* repr of a float: trailing zeros of the fraction dropped, one digit kept
RECURSIVE StripZeros(_)
StripZeros(s) ==
    IF Len(s) > 1 /\ s[Len(s)] = "0" THEN StripZeros(SubSeq(s, 1, Len(s) - 1)) ELSE s

\* a string from the quote before position j: up to the closing quote, with
\* the escapes \" \\ \n decoded; a raw newline inside is a control character
\* and is rejected, as is any other escape
RECURSIVE ScanString(_, _, _)
ScanString(text, j, acc) ==
    IF j > Len(text) THEN ParseFail
    ELSE IF text[j] = Quote THEN ParseOk(MkStr(acc), j + 1)
    ELSE IF text[j] = "\n" THEN ParseFail
    ELSE IF text[j] = Backslash THEN
        IF j + 1 <= Len(text) /\ text[j + 1] \in {Quote, Backslash, "n"}
        THEN ScanString(text, j + 2,
                        Append(acc, IF text[j + 1] = "n" THEN "\n" ELSE text[j + 1]))
        ELSE ParseFail
    ELSE ScanString(text, j + 1, Append(acc, text[j]))

ParseString(text, i) == ScanString(text, i + 1, <<>>)

\* a number: 0 or a run of digits, then an optional fraction
ParseNumber(text, i) ==
    LET intEnd == IF text[i] = "0" THEN i + 1 ELSE DigitRunEnd(text, i)
        hasFrac == /\ intEnd + 1 <= Len(text)
                   /\ text[intEnd] = "."
                   /\ text[intEnd + 1] \in Digits
        fracEnd == DigitRunEnd(text, intEnd + 1)
    IN  IF hasFrac
        THEN ParseOk(MkNum(SubSeq(text, i, intEnd - 1) \o <<".">>
                           \o StripZeros(SubSeq(text, intEnd + 1, fracEnd - 1))),
                     fracEnd)
        ELSE ParseOk(MkNum(SubSeq(text, i, intEnd - 1)), intEnd)

RECURSIVE ParseValue(_, _), ParseMembers(_, _, _), ParseElements(_, _, _)

\* members of an object from the quote of a key at j; acc holds those read
ParseMembers(text, j, acc) ==
    LET k == ParseString(text, j)
        c == SkipWs(text, k.end)
        v == ParseValue(text, SkipWs(text, c + 1))
        d == SkipWs(text, v.end)
        acc2 == DictPut(acc, k.val.str, v.val)
        e == SkipWs(text, d + 1)
    IN  IF ~k.ok THEN ParseFail
        ELSE IF c > Len(text) \/ text[c] # ":" THEN ParseFail
        ELSE IF ~v.ok THEN ParseFail
        ELSE IF d > Len(text) THEN ParseFail
        ELSE IF text[d] = "}" THEN ParseOk(acc2, d + 1)
        ELSE IF text[d] # "," THEN ParseFail
        ELSE IF e > Len(text) \/ text[e] # Quote THEN ParseFail
        ELSE ParseMembers(text, e, acc2)

\* elements of an array from the start of a value at j
ParseElements(text, j, acc) ==
    LET v == ParseValue(text, j)
        d == SkipWs(text, v.end)
        acc2 == Append(acc, v.val)
    IN  IF ~v.ok THEN ParseFail
        ELSE IF d > Len(text) THEN ParseFail
        ELSE IF text[d] = "]" THEN ParseOk(MkArr(acc2), d + 1)
        ELSE IF text[d] # "," THEN ParseFail
        ELSE ParseElements(text, SkipWs(text, d + 1), acc2)

ParseValue(text, i) ==
    IF i > Len(text) THEN ParseFail
    ELSE IF text[i] = Quote THEN ParseString(text, i)
    ELSE IF text[i] = "{" THEN
        LET j == SkipWs(text, i + 1)
        IN  IF j > Len(text) THEN ParseFail
            ELSE IF text[j] = "}" THEN ParseOk(MkObj(<<>>, <<>>), j + 1)
            ELSE IF text[j] # Quote THEN ParseFail
            ELSE ParseMembers(text, j, MkObj(<<>>, <<>>))
    ELSE IF text[i] = "[" THEN
        LET j == SkipWs(text, i + 1)
        IN  IF j > Len(text) THEN ParseFail
            ELSE IF text[j] = "]" THEN ParseOk(MkArr(<<>>), j + 1)
            ELSE ParseElements(text, j, <<>>)
    ELSE IF text[i] \in Digits THEN ParseNumber(text, i)
    ELSE IF text[i] \in Literals THEN ParseOk(MkLit(text[i]), i + 1)
    ELSE ParseFail

\* decoder.raw_decode(text[idx:]): ok = no JSONDecodeError
RawDecode(text, idx) == ParseValue(text, idx)

\* json.loads(text): white space around one value and nothing else
JsonLoads(text) ==
    LET r == ParseValue(text, SkipWs(text, 1))
    IN  IF r.ok /\ SkipWs(text, r.end) > Len(text) THEN r ELSE ParseFail

(***************************************************************************)
(* json.dumps with the default separators ", " and ": ".                   *)
(***************************************************************************)
RECURSIVE Serializable(_)
Serializable(v) ==
    /\ v.kind # "pyobj"
    /\ \A i \in 1..Len(v.items) : Serializable(v.items[i])

\* the characters of a string as json.dumps writes them between the quotes
RECURSIVE Escape(_)
Escape(s) ==
    IF s = <<>> THEN <<>>
    ELSE (CASE Head(s) = Quote -> <<Backslash, Quote>>
            [] Head(s) = Backslash -> <<Backslash, Backslash>>
            [] Head(s) = "\n" -> <<Backslash, "n">>
            [] OTHER -> <<Head(s)>>) \o Escape(Tail(s))

RECURSIVE JsonDumps(_), DumpItems(_, _), DumpMembers(_, _)

\* elements from index i on, separated by ", "
DumpItems(v, i) ==
    IF i > Len(v.items) THEN <<>>
    ELSE (IF i > 1 THEN <<",", " ">> ELSE <<>>)
         \o JsonDumps(v.items[i]) \o DumpItems(v, i + 1)

\* "key": value pairs from index i on, separated by ", "
DumpMembers(v, i) ==
    IF i > Len(v.keys) THEN <<>>
    ELSE (IF i > 1 THEN <<",", " ">> ELSE <<>>)
         \o <<Quote>> \o Escape(v.keys[i]) \o <<Quote, ":", " ">>
         \o JsonDumps(v.items[i]) \o DumpMembers(v, i + 1)

JsonDumps(v) ==
    CASE v.kind = "str" -> <<Quote>> \o Escape(v.str) \o <<Quote>>
      [] v.kind = "num" -> v.str
      [] v.kind = "lit" -> v.str
      [] v.kind = "arr" -> <<"[">> \o DumpItems(v, 1) \o <<"]">>
      [] v.kind = "obj" -> <<"{">> \o DumpMembers(v, 1) \o <<"}">>

(***************************************************************************)
(* JSONUtils.extract_json                                                  *)
(***************************************************************************)
\* variant: any() where the code has all()
HasAllRequiredProps_Any(obj, properties) ==
    \E n \in 1..Len(properties) : HasKey(obj, properties[n])

\* all(prop in obj for prop in properties)
HasAllRequiredProps(obj, properties) ==
    \A n \in 1..Len(properties) : HasKey(obj, properties[n])

\* the while loop from position idx on; None when the text is exhausted
RECURSIVE ExtractFrom(_, _, _)
ExtractFrom(text, properties, idx) ==
    IF idx > Len(text) THEN None
    ELSE IF text[idx] = "{" THEN
        LET r == RawDecode(text, idx)
        IN  IF r.ok /\ r.val.kind = "obj" /\ HasAllRequiredProps(r.val, properties)
            THEN r.val
            ELSE ExtractFrom(text, properties, idx + 1)
    ELSE ExtractFrom(text, properties, idx + 1)

\* variant: only the start of the text is tried, as json.loads would
extract_json_FromStart(text, properties) ==
    LET r == RawDecode(text, 1)
    IN  IF text # <<>> /\ text[1] = "{" /\ r.ok /\ r.val.kind = "obj"
           /\ HasAllRequiredProps(r.val, properties)
        THEN r.val
        ELSE None

extract_json(text, properties) == ExtractFrom(text, properties, 1)

(***************************************************************************)
(* re.sub(FENCE json | FENCE, "", reply).strip(), FENCE being the run of   *)
(* three backticks that opens or closes a fenced code block                *)
(***************************************************************************)
Fence == "<fence>"

\* every fence marker is removed, together with the word json right after it
RECURSIVE RemoveFences(_)
RemoveFences(s) ==
    IF s = <<>> THEN <<>>
    ELSE IF Head(s) = Fence THEN
        IF Len(s) >= 2 /\ s[2] = "json"
        THEN RemoveFences(SubSeq(s, 3, Len(s)))
        ELSE RemoveFences(Tail(s))
    ELSE <<Head(s)>> \o RemoveFences(Tail(s))

\* str.strip(): leading and trailing white space dropped
RECURSIVE Strip(_)
Strip(s) ==
    IF s = <<>> THEN s
    ELSE IF Head(s) \in Whitespace THEN Strip(Tail(s))
    ELSE IF s[Len(s)] \in Whitespace THEN Strip(SubSeq(s, 1, Len(s) - 1))
    ELSE s

StripFences(reply) == Strip(RemoveFences(reply))

(***************************************************************************)
(* Constants of src/agent/agent.py                                         *)
(***************************************************************************)
TOOL_NAME == <<"travel_info">>
TOOL_FULL_NAME == TOOL_NAME \o <<".", "get_info">>
COUNTRY_FROM == <<"Israel">>
PROPS == <<<<"tool">>, <<"arguments">>>>
APP_SYSTEM_CONTENT == <<"APP_SYSTEM_CONTENT">>

(***************************************************************************)
(* Tool instances.  An instance is what dir() and getattr() show of it:    *)
(* its attributes in dir() order, each with its name, whether its value    *)
(* is callable, and whether reading it runs a property getter.             *)
(***************************************************************************)
Attr(name, isCallable, isProperty) ==
    [name |-> name, callable |-> isCallable, property |-> isProperty]

\* TravelInfo: __init__, _code_from, the property code_from, country_from,
\* get_info
TravelInfo ==
    [cls |-> "TravelInfo",
     dir |-> << Attr(<<"_", "_", "init", "_", "_">>, TRUE, FALSE),
                Attr(<<"_", "code_from">>, FALSE, FALSE),
                Attr(<<"code_from">>, FALSE, TRUE),
                Attr(<<"country_from">>, FALSE, FALSE),
                Attr(<<"get_info">>, TRUE, FALSE) >>]

\* any other object handed to the router: a private helper, a data
\* attribute and one public method taking arbitrary keyword arguments
StubTool ==
    [cls |-> "StubTool",
     dir |-> << Attr(<<"_", "helper">>, TRUE, FALSE),
                Attr(<<"label">>, FALSE, FALSE),
                Attr(<<"run">>, TRUE, FALSE) >>]

ToolInstances == {TravelInfo, StubTool}

\* an object with a public method on either side of a property in dir()
PropTool ==
    [cls |-> "PropTool",
     dir |-> << Attr(<<"alpha">>, TRUE, FALSE),
                Attr(<<"beta">>, FALSE, TRUE),
                Attr(<<"gamma">>, TRUE, FALSE) >>]
ToolNames == {TOOL_NAME, <<"stub">>}

\* a bound method of a registered instance
Callable(instance, attrName) == [cls |-> instance.cls, attr |-> attrName]
NoCallable == [cls |-> "", attr |-> <<>>]

(***************************************************************************)
(* ToolRouter                                                              *)
(***************************************************************************)
EmptyMap == [x \in {} |-> x]
MapPut(f, k, v) == [x \in DOMAIN f \cup {k} |-> IF x = k THEN v ELSE f[x]]

\* ToolRouter.__init__
NewRouter == [tool_instances |-> EmptyMap, tool_methods |-> EmptyMap]

\* variant: no name counts as private
StartsWithUnderscore_Never(name) == FALSE

\* str.startswith("_")
StartsWithUnderscore(name) == name # <<>> /\ Head(name) = "_"

\* variant: the key is the member's name alone
RECURSIVE ScanAttrs_BareKeys(_, _, _, _, _)
ScanAttrs_BareKeys(methods, name, instance, i, raiseAt) ==
    IF i > Len(instance.dir) \/ i = raiseAt THEN methods
    ELSE LET a == instance.dir[i]
         IN  IF StartsWithUnderscore(a.name) \/ ~a.callable
             THEN ScanAttrs_BareKeys(methods, name, instance, i + 1, raiseAt)
             ELSE ScanAttrs_BareKeys(MapPut(methods, a.name,
                                            Callable(instance, a.name)),
                                     name, instance, i + 1, raiseAt)

\* the for loop of register_tool_instance from the i-th name of
\* dir(instance) on; reading attribute number raiseAt raises (0: none does)
RECURSIVE ScanAttrs(_, _, _, _, _)
ScanAttrs(methods, name, instance, i, raiseAt) ==
    IF i > Len(instance.dir) \/ i = raiseAt THEN methods
    ELSE LET a == instance.dir[i]
         IN  IF StartsWithUnderscore(a.name)
             THEN ScanAttrs(methods, name, instance, i + 1, raiseAt)
             ELSE IF a.callable
             THEN ScanAttrs(MapPut(methods, name \o <<".">> \o a.name,
                                   Callable(instance, a.name)),
                            name, instance, i + 1, raiseAt)
             ELSE ScanAttrs(methods, name, instance, i + 1, raiseAt)

\* the attributes whose getattr can raise: public properties
CanRaiseAt(instance) ==
    {0} \cup {i \in 1..Len(instance.dir) :
                /\ instance.dir[i].property
                /\ ~StartsWithUnderscore(instance.dir[i].name)}

\* variant: a name already registered is registered again, the new instance
\* and its methods replacing and joining the old ones
register_tool_instance_Overwrite(router, name, instance, raiseAt) ==
    [router |-> [tool_instances |-> MapPut(router.tool_instances, name, instance),
                 tool_methods |-> ScanAttrs(router.tool_methods, name,
                                            instance, 1, raiseAt)],
     raised |-> name \in DOMAIN router.tool_instances \/ raiseAt # 0,
     error |-> IF name \in DOMAIN router.tool_instances
               THEN <<"Tool", " ", "instance", " ", "already", " ",
                      "registered", ":", " ">> \o name
               ELSE IF raiseAt # 0 THEN <<"property", " ", "failed">> ELSE <<>>]

\* variant: nothing is recorded when reading an attribute raises
register_tool_instance_Atomic(router, name, instance, raiseAt) ==
    IF name \in DOMAIN router.tool_instances
    THEN [router |-> router, raised |-> TRUE,
          error |-> <<"Tool", " ", "instance", " ", "already", " ",
                      "registered", ":", " ">> \o name]
    ELSE IF raiseAt # 0
    THEN [router |-> router, raised |-> TRUE,
          error |-> <<"property", " ", "failed">>]
    ELSE [router |-> [tool_instances |-> MapPut(router.tool_instances, name, instance),
                      tool_methods |-> ScanAttrs(router.tool_methods, name,
                                                 instance, 1, 0)],
          raised |-> FALSE,
          error |-> <<>>]

\* register_tool_instance: the router afterwards and the error raised, if any
register_tool_instance(router, name, instance, raiseAt) ==
    IF name \in DOMAIN router.tool_instances
    THEN [router |-> router, raised |-> TRUE,
          error |-> <<"Tool", " ", "instance", " ", "already", " ",
                      "registered", ":", " ">> \o name]
    ELSE [router |-> [tool_instances |-> MapPut(router.tool_instances, name, instance),
                      tool_methods |-> ScanAttrs(router.tool_methods, name,
                                                 instance, 1, raiseAt)],
          raised |-> raiseAt # 0,
          error |-> IF raiseAt # 0 THEN <<"property", " ", "failed">> ELSE <<>>]

\* what a call ends with: a returned value or a raised exception
Returned(v) == [raised |-> FALSE, error |-> <<>>, value |-> v]
Raised(msg) == [raised |-> TRUE, error |-> msg, value |-> None]

\* variant: a name that is no key is tried again with .get_info appended
get_tool_DefaultMethod(router, name) ==
    IF name \in DOMAIN router.tool_methods
    THEN Returned(router.tool_methods[name])
    ELSE IF name \o <<".", "get_info">> \in DOMAIN router.tool_methods
    THEN Returned(router.tool_methods[name \o <<".", "get_info">>])
    ELSE Raised(<<"Unknown", " ", "tool", ":", " ">> \o name)

\* get_tool
get_tool(router, name) ==
    IF name \in DOMAIN router.tool_methods
    THEN Returned(router.tool_methods[name])
    ELSE Raised(<<"Unknown", " ", "tool", ":", " ">> \o name)

(***************************************************************************)
(* The tools' behaviour: what a callable can do when invoked with keyword  *)
(* arguments.  The lookups behind TravelInfo.get_info go to the network:   *)
(* the call either returns its JSON text or raises.                        *)
(***************************************************************************)
TravelResult(country_to) ==
    MkObj(<< <<"country_from">>, <<"country_to">>, <<"code_from">>,
             <<"code_to">>, <<"currency_name">>, <<"exchange_rate">> >>,
          << MkStr(COUNTRY_FROM), country_to, MkStr(<<"ILS">>),
             MkStr(<<"JPY">>), MkStr(<<"yen">>), MkNum(<<"1", ".", "1">>) >>)

\* TravelInfo.get_info(country_to)
get_info(arguments) ==
    IF arguments.keys # << <<"country_to">> >>
    THEN {Raised(<<"get_info()", " ", "bad", " ", "keyword", " ", "arguments">>)}
    ELSE {Returned(MkStr(JsonDumps(TravelResult(arguments.items[1])))),
          Raised(<<"Country", " ", "not", " ", "found", ".">>)}

\* the values a tool other than TravelInfo may return (text, a structured
\* value, something json.dumps rejects) or the error it may raise
StubReturns ==
    { MkStr(<<"{", Quote, "temp", Quote, ":", " ", "1", "}">>),
      MkStr(<<"sunny", " ", "today">>),
      MkStr(<<"{", Quote, "temp", "\n">>),
      MkStr(<<"[", "1", "]">>),
      MkStr(<<"1", ".", "1", "0">>),
      MkStr(<<Quote, "ok", Quote>>),
      MkStr(<<"true">>),
      MkStr(<<" ", "null", "\n">>),
      MkObj(<< <<"temp">> >>, << MkNum(<<"1">>) >>),
      MkObj(<< <<"error">> >>, << MkStr(<<"no", " ", "data">>) >>),
      MkArr(<< PyObject >>) }

StubRun(arguments) ==
    {Returned(v) : v \in StubReturns} \cup {Raised(<<"stub", " ", "failed">>)}

\* tool(**arguments): every way the call can end
Invoke(callable, arguments) ==
    IF arguments.kind # "obj"
    THEN {Raised(<<"argument", " ", "after", " ", "**", " ", "must", " ", "be",
                   " ", "a", " ", "mapping">>)}
    ELSE IF callable.cls = "TravelInfo" /\ callable.attr = <<"get_info">>
    THEN get_info(arguments)
    ELSE StubRun(arguments)

\* call_tool: every way it can end, each with the callable that was invoked
\* (NoCallable when none was), the name that was resolved and the keyword
\* arguments the callable was handed (None when none was invoked)
CallEnd(end, callable, name, kwargs) ==
    [raised |-> end.raised, error |-> end.error, value |-> end.value,
     invoked |-> callable, resolved |-> name, kwargs |-> kwargs]

\* variant: only a missing name counts as empty
NameIsEmpty_OnlyNone(tool_name) == tool_name = None

\* `not tool_name`
NameIsEmpty(tool_name) == ~Truthy(tool_name)

\* variant: every name without a dot gets .get_info appended
ResolveName_AnyDotless(name) ==
    IF ~(\E i \in 1..Len(name) : name[i] = ".")
    THEN name \o <<".", "get_info">>
    ELSE name

\* the shortcut: travel_info stands for travel_info.get_info
ResolveName(name) ==
    IF ~(\E i \in 1..Len(name) : name[i] = ".") /\ name = <<"travel_info">>
    THEN name \o <<".", "get_info">>
    ELSE name

\* tool_data["tool"] and tool_data["arguments"], the key being present
PayloadTool(tool_data) == tool_data.items[KeyIndex(tool_data.keys, <<"tool">>)]
PayloadArguments(tool_data) ==
    tool_data.items[KeyIndex(tool_data.keys, <<"arguments">>)]
\* the KeyError of a subscript with an absent key
KeyError(key) == <<"'">> \o key \o <<"'">>

call_tool(router, tool_data) ==
    LET tool_name == PayloadTool(tool_data)
        arguments == PayloadArguments(tool_data)
        name == ResolveName(tool_name.str)
        tool == get_tool(router, name)
    IN  IF ~HasKey(tool_data, <<"tool">>)
        THEN {CallEnd(Raised(KeyError(<<"tool">>)), NoCallable, <<>>, None)}
        ELSE IF ~HasKey(tool_data, <<"arguments">>)
        THEN {CallEnd(Raised(KeyError(<<"arguments">>)), NoCallable, <<>>, None)}
        ELSE IF NameIsEmpty(tool_name)
        THEN {CallEnd(Raised(<<"Tool", " ", "name", " ", "is", " ", "empty", ".">>),
                      NoCallable, <<>>, None)}
        ELSE IF tool_name.kind \in {"num", "lit"}
        THEN {CallEnd(Raised(<<"argument", " ", "is", " ", "not", " ", "iterable">>),
                      NoCallable, <<>>, None)}
        ELSE IF tool_name.kind \in {"arr", "obj"}
        THEN {CallEnd(Raised(<<"unhashable", " ", "type">>), NoCallable, <<>>, None)}
        ELSE IF tool.raised
        THEN {CallEnd(tool, NoCallable, name, None)}
        ELSE {CallEnd(end, tool.value, name, arguments) :
                end \in Invoke(tool.value, arguments)}

(***************************************************************************)
(* ToolAgent                                                               *)
(***************************************************************************)
\* variant: the turn is inserted at the front
AddMessage_Prepend(msgs, role, content) ==
    <<[role |-> role, content |-> content]>> \o msgs

\* variant: the turn is appended twice
AddMessage_Twice(msgs, role, content) ==
    msgs \o <<[role |-> role, content |-> content],
              [role |-> role, content |-> content]>>

\* _add_message
AddMessage(msgs, role, content) == Append(msgs, [role |-> role, content |-> content])

\* variant: the message itself, not serialized
ErrorReply_Text(message) == message

\* json.dumps({"error": message})
ErrorReply(message) == JsonDumps(MkObj(<< <<"error">> >>, << MkStr(message) >>))

NoToolCallMessage ==
    <<"Model", " ", "did", " ", "not", " ", "return", " ", "valid", " ",
      "tool", " ", "call", " ", "JSON", ".">>

\* variant: text that does not parse is passed on as it is
NormalizeResult_NoWrap(tool_result) ==
    IF tool_result.kind = "str"
    THEN LET parsed == JsonLoads(tool_result.str)
         IN  IF parsed.ok THEN parsed.val ELSE tool_result
    ELSE tool_result

\* variant: parsed text that is no mapping is wrapped like text that fails
\* to parse
NormalizeResult_WrapNonObject(tool_result) ==
    IF tool_result.kind = "str"
    THEN LET parsed == JsonLoads(tool_result.str)
         IN  IF parsed.ok /\ parsed.val.kind = "obj" THEN parsed.val
             ELSE MkObj(<< <<"raw">> >>, << tool_result >>)
    ELSE tool_result

\* the normalisation of a tool's return value in _handle_tool_call
NormalizeResult(tool_result) ==
    IF tool_result.kind = "str"
    THEN LET parsed == JsonLoads(tool_result.str)
         IN  IF parsed.ok THEN parsed.val
             ELSE MkObj(<< <<"raw">> >>, << tool_result >>)
    ELSE tool_result

\* variant: the except branch appends the assistant turn itself
HandleToolCall_AppendsAssistant(msgs, tool_data, end) ==
    LET tool_result == NormalizeResult(end.value)
        content == MkObj(<< <<"tool">>, <<"result">> >>,
                         << DictGet(tool_data, <<"tool">>), tool_result >>)
    IN  IF end.raised
        THEN [messages |-> Append(msgs, [role |-> "assistant",
                                         content |-> end.error]),
              reply |-> JsonDumps(MkObj(<< <<"error">> >>, << MkStr(end.error) >>))]
        ELSE IF ~Serializable(content)
        THEN [messages |-> msgs,
              reply |-> JsonDumps(MkObj(<< <<"error">> >>,
                                        << MkStr(<<"not", " ", "serializable">>) >>))]
        ELSE [messages |-> Append(msgs, [role |-> "tool",
                                         content |-> JsonDumps(content)]),
              reply |-> JsonDumps(tool_result)]

\* variant: a tool turn is appended in the except branch as well
HandleToolCall_ToolTurnOnError(msgs, tool_data, end) ==
    LET tool_result == NormalizeResult(end.value)
        content == MkObj(<< <<"tool">>, <<"result">> >>,
                         << DictGet(tool_data, <<"tool">>), tool_result >>)
        error == JsonDumps(MkObj(<< <<"error">> >>, << MkStr(end.error) >>))
    IN  IF end.raised
        THEN [messages |-> Append(msgs, [role |-> "tool", content |-> error]),
              reply |-> error]
        ELSE IF ~Serializable(content)
        THEN [messages |-> msgs,
              reply |-> JsonDumps(MkObj(<< <<"error">> >>,
                                        << MkStr(<<"not", " ", "serializable">>) >>))]
        ELSE [messages |-> Append(msgs, [role |-> "tool",
                                         content |-> JsonDumps(content)]),
              reply |-> JsonDumps(tool_result)]

\* variant: the tool turn is appended before its content is serialized
HandleToolCall_AppendBeforeDump(msgs, tool_data, end) ==
    LET tool_result == NormalizeResult(end.value)
        content == MkObj(<< <<"tool">>, <<"result">> >>,
                         << DictGet(tool_data, <<"tool">>), tool_result >>)
    IN  IF end.raised
        THEN [messages |-> msgs,
              reply |-> JsonDumps(MkObj(<< <<"error">> >>, << MkStr(end.error) >>))]
        ELSE IF ~Serializable(content)
        THEN [messages |-> Append(msgs, [role |-> "tool", content |-> <<>>]),
              reply |-> JsonDumps(MkObj(<< <<"error">> >>,
                                        << MkStr(<<"not", " ", "serializable">>) >>))]
        ELSE [messages |-> Append(msgs, [role |-> "tool",
                                         content |-> JsonDumps(content)]),
              reply |-> JsonDumps(tool_result)]

\* variant: the tool turn is never appended
HandleToolCall_NoToolTurn(msgs, tool_data, end) ==
    LET tool_result == NormalizeResult(end.value)
    IN  IF end.raised
        THEN [messages |-> msgs,
              reply |-> JsonDumps(MkObj(<< <<"error">> >>, << MkStr(end.error) >>))]
        ELSE IF ~Serializable(tool_result)
        THEN [messages |-> msgs,
              reply |-> JsonDumps(MkObj(<< <<"error">> >>,
                                        << MkStr(<<"not", " ", "serializable">>) >>))]
        ELSE [messages |-> msgs, reply |-> JsonDumps(tool_result)]

\* _handle_tool_call once call_tool has ended with `end`: the transcript
\* afterwards and the text returned
HandleToolCall(msgs, tool_data, end) ==
    LET tool_name == DictGet(tool_data, <<"tool">>)
        tool_result == NormalizeResult(end.value)
        content == MkObj(<< <<"tool">>, <<"result">> >>, << tool_name, tool_result >>)
    IN  IF end.raised
        THEN [messages |-> msgs, reply |-> ErrorReply(end.error)]
        ELSE IF ~Serializable(content)
        THEN [messages |-> msgs,
              reply |-> ErrorReply(<<"Object", " ", "is", " ", "not", " ", "JSON",
                                     " ", "serializable">>)]
        ELSE [messages |-> AddMessage(msgs, "tool", JsonDumps(content)),
              reply |-> JsonDumps(tool_result)]

\* the end of call_tool when _handle_tool_call is never entered
NotCalled ==
    [raised |-> FALSE, error |-> <<>>, value |-> None,
     invoked |-> NoCallable, resolved |-> <<>>, kwargs |-> None]

\* what the agent makes of the model's text: the stripped reply, the
\* extracted payload, and whether it goes on to _handle_tool_call
Stripped(raw) == StripFences(raw)
ToolData(raw) == extract_json(Stripped(raw), PROPS)
\* variant: the truth value of the payload alone decides
IsToolCall_AnyPayload(raw) == Truthy(ToolData(raw))

\* variant: any tool other than None goes on to _handle_tool_call
IsToolCall_ToolNotNone(raw) ==
    LET tool_data == ToolData(raw)
    IN  Truthy(tool_data) /\ DictGet(tool_data, <<"tool">>) # None

IsToolCall(raw) ==
    LET tool_data == ToolData(raw)
    IN  Truthy(tool_data) /\ Truthy(DictGet(tool_data, <<"tool">>))

(***************************************************************************)
(* The inputs: user texts and the texts the language model may answer.     *)
(***************************************************************************)
Q(s) == <<Quote>> \o s \o <<Quote>>

\* {"tool": <toolText>, "arguments": <argsText>}
Payload(toolText, argsText) ==
    <<"{">> \o Q(<<"tool">>) \o <<":", " ">> \o toolText \o <<",", " ">>
    \o Q(<<"arguments">>) \o <<":", " ">> \o argsText \o <<"}">>

ArgsJapan == <<"{">> \o Q(<<"country_to">>) \o <<":", " ">> \o Q(<<"Japan">>) \o <<"}">>
GoodPayload == Payload(Q(TOOL_FULL_NAME), ArgsJapan)
StubPayload == Payload(Q(<<"stub", ".", "run">>), <<"{", "}">>)
NoteObject == <<"{">> \o Q(<<"note">>) \o <<":", " ", "1", "}">>

\* the user's text only ever becomes the content of a turn
UserInputs == { <<"Can", " ", "I", " ", "go", " ", "to", " ", "Japan", "?">> }

\* texts and property lists handed to extract_json on its own: a prefix, a
\* first fragment, a separator, a second fragment and a suffix
TextPrefixes == { <<>>, <<"see", ":", " ">>, <<"{", " ">>, <<"[">> }
TextFragments ==
    { <<>>,
      GoodPayload,
      NoteObject,
      <<"{">> \o Q(<<"tool">>) \o <<":", " ", "1", "}">>,
      <<"{">> \o Q(<<"tool">>) \o <<":", " ">>,
      <<"{">> \o Q(<<"arguments">>) \o <<":", " ">> \o NoteObject \o <<",", " ">>
          \o Q(<<"tool">>) \o <<":", " ", "null", "}">>,
      <<"[", "1", ",", " ", "true", "]">> }
TextSeparators == { <<" ">>, <<",", " ">> }
TextSuffixes == { <<>>, <<"}">>, <<" ", "ok">> }
ExtractTexts ==
    { a \o b \o c \o d \o e :
        a \in TextPrefixes, b \in TextFragments, c \in TextSeparators,
        d \in TextFragments, e \in TextSuffixes }
ExtractProps == { PROPS, << <<"tool">> >>, << <<"note">> >>, <<>> }

LLMReplies ==
    { <<"Sorry", ",", " ", "no", " ", "idea">>,
      <<>>,
      <<Fence, "json", "\n">> \o GoodPayload \o <<"\n", Fence>>,
      <<"Sure", ":", " ">> \o GoodPayload \o <<" ", "done">>,
      Payload(Q(TOOL_NAME), ArgsJapan),
      Payload(Q(<<"weather", ".", "now">>), <<"{", "}">>),
      Payload(Q(<<"stub">>), <<"{", "}">>),
      Payload(Q(<<>>), <<"{", "}">>),
      Payload(<<"null">>, ArgsJapan),
      Payload(<<"0">>, ArgsJapan),
      Payload(<<"1">>, ArgsJapan),
      Payload(<<"[", "1", "]">>, ArgsJapan),
      Payload(Q(TOOL_FULL_NAME), <<"{", "}">>),
      Payload(Q(TOOL_FULL_NAME), <<"[", "1", "]">>),
      Payload(Q(TOOL_FULL_NAME),
              <<"{">> \o Q(<<"country_to">>) \o <<":", " ">>
              \o Q(<<"Ja", Fence, "pan">>) \o <<"}">>),
      <<"{", " ", "oops", " ">> \o GoodPayload,
      NoteObject \o <<" ">> \o StubPayload,
      <<"{">> \o Q(<<"plan">>) \o <<":", " ">> \o GoodPayload \o <<"}">>,
      <<"[">> \o NoteObject \o <<"]">>,
      <<"{">> \o Q(<<"tool">>) \o <<":", " ">> \o Q(TOOL_FULL_NAME) \o <<"}">>,
      StubPayload \o <<" ">> \o GoodPayload }

(***************************************************************************)
(* State                                                                   *)
(***************************************************************************)
VARIABLES
    messages,     \* ToolAgent.messages: the transcript
    tools,        \* ToolAgent.tools: the router's two maps
    pc,           \* where the current call of run stands; "idle" between calls
    llm_reply,    \* _process_user_message: the text _get_reply returned
    reply,        \* run: the text _process_user_message returned
    start,        \* history: the transcript when the last call of run began
    call,         \* history: how call_tool ended in the last call of run
    outcome,      \* history: "returned" or "raised", how the last call ended
    result,       \* history: the text the last call of run returned
    register_error, \* history: the error of the last register_tool_instance
    hist,         \* history of the last call of run: the stages done so far,
                  \* the transcript handed to the model, and how many times
                  \* the model and a tool callable were called
    ex_text,      \* extract_json called on its own: the text argument
    ex_props,     \* extract_json called on its own: the properties argument
    ex_done,      \* extract_json called on its own: whether it has returned
    ex_result,    \* extract_json called on its own: the value returned
    router,       \* a ToolRouter used on its own: its two maps
    rt_call,      \* history: the last method called on router, with arguments
    rt_before,    \* history: router when that call began
    rt_end,       \* history: how that call ended
    cli_pc,       \* AgentCLI.run: where the main thread stands in the loop
    cli_reply,    \* AgentCLI.run: the local variable reply
    cli_exc,      \* AgentCLI.run: whether an exception of agent.run is pending
    dots_pc,      \* the main thread inside ThinkingDots.start or stop
    stop_event,   \* ThinkingDots._stop_event
    thread,       \* ThinkingDots._thread: index into threads, 0 for None
    threads,      \* every Thread object created so far: its worker's state
    console       \* sys.stdout: the last thing written to the console line

agentVars == <<messages, tools, pc, llm_reply, reply, start, call, outcome, result,
               register_error, hist>>
exVars == <<ex_text, ex_props, ex_done, ex_result>>
routerVars == <<router, rt_call, rt_before, rt_end>>
cliVars == <<cli_pc, cli_reply, cli_exc, dots_pc, stop_event, thread, threads,
             console>>
vars == <<agentVars, exVars, routerVars, cliVars>>

\* no call of run yet, or one that has just begun
NoHistory == [stages |-> <<>>, sent |-> <<>>, model_calls |-> 0, tool_calls |-> 0]
\* the history after the stages named were done
Did(h, stages) == [h EXCEPT !.stages = @ \o stages]
\* the history after LLMClient.send was called with the transcript
Sent(h, transcript) ==
    [h EXCEPT !.stages = Append(@, "model_call"),
              !.sent = transcript,
              !.model_calls = @ + 1]

\* ToolAgent.__init__: the system turn, then the travel tool registered
AgentInit ==
    /\ messages = AddMessage(<<>>, "system", APP_SYSTEM_CONTENT)
    /\ tools = register_tool_instance(NewRouter, TOOL_NAME, TravelInfo, 0).router
    /\ pc = "idle"
    /\ llm_reply = <<>>
    /\ reply = <<>>
    /\ start = messages
    /\ call = NotCalled
    /\ outcome = "none"
    /\ result = <<>>
    /\ register_error = <<>>
    /\ hist = NoHistory

\* ToolRouter.__init__, no method called yet
NoInstance == [cls |-> "", dir |-> <<>>]
NoRouterCall ==
    [op |-> "none", name |-> <<>>, instance |-> NoInstance, tool_data |-> None]
NoRouterEnd ==
    [raised |-> FALSE, error |-> <<>>, value |-> None, callable |-> NoCallable,
     invoked |-> NoCallable, resolved |-> <<>>, kwargs |-> None]
RouterNew ==
    /\ router = NewRouter
    /\ rt_call = NoRouterCall
    /\ rt_before = NewRouter
    /\ rt_end = NoRouterEnd

\* what sys.stdout last received: who wrote (0 the main thread, else the
\* index of the worker's thread), what, and the number of dots of a line
Written(by, text, dots) == [by |-> by, text |-> text, dots |-> dots]

\* AgentCLI.__init__ and ThinkingDots.__init__: no thread, the event clear
CliNew ==
    /\ cli_pc = "banner"
    /\ cli_reply = <<>>
    /\ cli_exc = FALSE
    /\ dots_pc = "none"
    /\ stop_event = FALSE
    /\ thread = 0
    /\ threads = <<>>
    /\ console = Written(0, "nothing", 0)

Init ==
    /\ AgentInit
    /\ ex_text = <<>>
    /\ ex_props = PROPS
    /\ ex_done = FALSE
    /\ ex_result = None
    /\ RouterNew
    /\ CliNew

\* variant: the model is called before the user turn is appended
Run_NoUserTurn(user_input) ==
    /\ pc = "idle"
    /\ Len(messages) + 3 <= MaxMessages
    /\ start' = messages
    /\ call' = NotCalled
    /\ outcome' = "running"
    /\ hist' = Did(NoHistory, <<"append_user">>)
    /\ pc' = "get_reply"
    /\ UNCHANGED <<messages, tools, llm_reply, reply, result, register_error, exVars,
                   routerVars, cliVars>>

\* run, first statement: the user turn is appended
Run(user_input) ==
    /\ pc = "idle"
    /\ Len(messages) + 3 <= MaxMessages
    /\ messages' = AddMessage(messages, "user", user_input)
    /\ start' = messages
    /\ call' = NotCalled
    /\ outcome' = "running"
    /\ hist' = Did(NoHistory, <<"append_user">>)
    /\ pc' = "get_reply"
    /\ UNCHANGED <<tools, llm_reply, reply, result, register_error, exVars,
                   routerVars, cliVars>>

\* _get_reply: LLMClient.send returns the model's text
GetReply(text) ==
    /\ pc = "get_reply"
    /\ llm_reply' = text
    /\ hist' = Sent(hist, messages)
    /\ pc' = "process"
    /\ UNCHANGED <<messages, tools, reply, start, call, outcome, result,
                   register_error, exVars,
                   routerVars, cliVars>>

\* variant: the user turn is taken back when the model call raises
GetReplyRaises_Rollback ==
    /\ pc = "get_reply"
    /\ messages' = start
    /\ outcome' = "raised"
    /\ hist' = Sent(hist, messages)
    /\ pc' = "idle"
    /\ UNCHANGED <<tools, llm_reply, reply, start, call, result,
                   register_error, exVars,
                   routerVars, cliVars>>

\* variant: a failed model call is tried again
GetReplyRaises_Retry ==
    /\ pc = "get_reply"
    /\ hist' = Sent(hist, messages)
    /\ UNCHANGED <<messages, tools, pc, llm_reply, reply, start, call, outcome,
                   result, register_error, exVars, routerVars, cliVars>>

\* _get_reply: LLMClient.send raises; nothing in run catches it
GetReplyRaises ==
    /\ pc = "get_reply"
    /\ outcome' = "raised"
    /\ hist' = Sent(hist, messages)
    /\ pc' = "idle"
    /\ UNCHANGED <<messages, tools, llm_reply, reply, start, call, result,
                   register_error, exVars,
                   routerVars, cliVars>>

\* _process_user_message after _get_reply: the reply is a tool call
ProcessToolCall ==
    /\ pc = "process"
    /\ IsToolCall(llm_reply)
    /\ \E end \in call_tool(tools, ToolData(llm_reply)) :
         LET done == HandleToolCall(messages, ToolData(llm_reply), end)
         IN  /\ messages' = done.messages
             /\ reply' = done.reply
             /\ call' = end
             /\ hist' = [Did(hist, <<"strip", "extract", "dispatch">>
                                   \o IF done.messages # messages
                                      THEN <<"append_tool">> ELSE <<>>)
                            EXCEPT !.tool_calls =
                                @ + IF end.invoked # NoCallable THEN 1 ELSE 0]
    /\ pc' = "append_assistant"
    /\ UNCHANGED <<tools, llm_reply, start, outcome, result, register_error, exVars,
                   routerVars, cliVars>>

\* _process_user_message after _get_reply: no tool call in the reply
ProcessNoToolCall ==
    /\ pc = "process"
    /\ ~IsToolCall(llm_reply)
    /\ reply' = ErrorReply(NoToolCallMessage)
    /\ hist' = Did(hist, <<"strip", "extract">>)
    /\ pc' = "append_assistant"
    /\ UNCHANGED <<messages, tools, llm_reply, start, call, outcome, result,
                   register_error, exVars,
                   routerVars, cliVars>>

\* variant: the reply is returned without its assistant turn
RunReturn_SkipAssistant ==
    /\ pc = "append_assistant"
    /\ result' = reply
    /\ outcome' = "returned"
    /\ hist' = Did(hist, <<"append_assistant", "return">>)
    /\ pc' = "idle"
    /\ UNCHANGED <<messages, tools, llm_reply, reply, start, call, register_error,
                   exVars, routerVars, cliVars>>

\* variant: the model's own text is returned, not the appended reply
RunReturn_ReturnsModelText ==
    /\ pc = "append_assistant"
    /\ messages' = AddMessage(messages, "assistant", reply)
    /\ result' = llm_reply
    /\ outcome' = "returned"
    /\ hist' = Did(hist, <<"append_assistant", "return">>)
    /\ pc' = "idle"
    /\ UNCHANGED <<tools, llm_reply, reply, start, call, register_error,
                   exVars, routerVars, cliVars>>

\* run, last two statements: the assistant turn is appended, reply returned
RunReturn ==
    /\ pc = "append_assistant"
    /\ messages' = AddMessage(messages, "assistant", reply)
    /\ result' = reply
    /\ outcome' = "returned"
    /\ hist' = Did(hist, <<"append_assistant", "return">>)
    /\ pc' = "idle"
    /\ UNCHANGED <<tools, llm_reply, reply, start, call, register_error, exVars,
                   routerVars, cliVars>>

\* a caller registers one more tool instance on the agent's router
RegisterTool(name, instance, raiseAt) ==
    /\ pc = "idle"
    /\ LET done == register_tool_instance(tools, name, instance, raiseAt)
       IN  /\ tools' = done.router
           /\ register_error' = done.error
    /\ UNCHANGED <<messages, pc, llm_reply, reply, start, call, outcome, result, hist,
                   exVars, routerVars, cliVars>>

Next ==
    \/ \E user_input \in UserInputs : Run(user_input)
    \/ \E text \in LLMReplies : GetReply(text)
    \/ GetReplyRaises
    \/ ProcessToolCall
    \/ ProcessNoToolCall
    \/ RunReturn
    \/ \E name \in ToolNames, instance \in ToolInstances :
         \E raiseAt \in CanRaiseAt(instance) : RegisterTool(name, instance, raiseAt)

Spec == Init /\ [][Next]_vars

(***************************************************************************)
(* extract_json on its own: the arguments are drawn in the initial state,  *)
(* the one action is the call.                                             *)
(***************************************************************************)
ExtractInit ==
    /\ AgentInit
    /\ ex_text \in ExtractTexts
    /\ ex_props \in ExtractProps
    /\ ex_done = FALSE
    /\ ex_result = None
    /\ RouterNew
    /\ CliNew

ExtractCall ==
    /\ ~ex_done
    /\ ex_result' = extract_json(ex_text, ex_props)
    /\ ex_done' = TRUE
    /\ UNCHANGED <<agentVars, ex_text, ex_props, routerVars, cliVars>>

ExtractNext == ExtractCall

ExtractSpec == ExtractInit /\ [][ExtractNext]_vars

(***************************************************************************)
(* ToolRouter on its own: a caller registers instances, resolves names     *)
(* and dispatches payloads in any order.                                   *)
(***************************************************************************)
\* the objects handed to register_tool_instance
RouterInstances == ToolInstances \cup {PropTool}

\* the names asked of get_tool: keys, short names, private and data members
RouterKeys ==
    { TOOL_NAME, TOOL_FULL_NAME, <<"stub">>, <<"stub", ".", "run">>,
      <<"stub", ".", "get_info">>, <<"stub", ".", "_", "helper">>,
      <<"travel_info", ".", "code_from">> }

\* the payloads handed to call_tool
RouterToolValues ==
    { MkStr(TOOL_NAME), MkStr(TOOL_FULL_NAME), MkStr(<<"stub">>),
      MkStr(<<"stub", ".", "run">>), MkStr(<<>>), None, MkNum(<<"0">>),
      MkNum(<<"1">>), MkArr(<< MkNum(<<"1">>) >>) }
RouterArguments ==
    { MkObj(<< <<"country_to">> >>, << MkStr(<<"Japan">>) >>),
      MkObj(<<>>, <<>>),
      MkArr(<< MkNum(<<"1">>) >>) }
RouterPayloads ==
    { MkObj(<< <<"tool">>, <<"arguments">> >>, <<t, a>>) :
        t \in RouterToolValues, a \in RouterArguments }
    \cup { MkObj(<< <<"arguments">> >>, <<a>>) : a \in RouterArguments }
    \cup { MkObj(<< <<"tool">> >>, <<t>>) : t \in RouterToolValues }

\* router.register_tool_instance(name, instance)
RouterRegister(name, instance, raiseAt) ==
    /\ LET done == register_tool_instance(router, name, instance, raiseAt)
       IN  /\ router' = done.router
           /\ rt_end' = [NoRouterEnd EXCEPT !.raised = done.raised,
                                            !.error = done.error]
    /\ rt_call' = [NoRouterCall EXCEPT !.op = "register", !.name = name,
                                       !.instance = instance]
    /\ rt_before' = router
    /\ UNCHANGED <<agentVars, exVars, cliVars>>

\* router.get_tool(name)
RouterGetTool(name) ==
    /\ LET tool == get_tool(router, name)
       IN  rt_end' = [NoRouterEnd EXCEPT !.raised = tool.raised,
                                        !.error = tool.error,
                                        !.callable = IF tool.raised THEN NoCallable
                                                     ELSE tool.value]
    /\ rt_call' = [NoRouterCall EXCEPT !.op = "get_tool", !.name = name]
    /\ rt_before' = router
    /\ UNCHANGED <<router, agentVars, exVars, cliVars>>

\* router.call_tool(tool_data)
RouterCallTool(tool_data) ==
    /\ \E end \in call_tool(router, tool_data) :
         rt_end' = [NoRouterEnd EXCEPT !.raised = end.raised,
                                      !.error = end.error,
                                      !.value = end.value,
                                      !.invoked = end.invoked,
                                      !.resolved = end.resolved,
                                      !.kwargs = end.kwargs]
    /\ rt_call' = [NoRouterCall EXCEPT !.op = "call_tool", !.tool_data = tool_data]
    /\ rt_before' = router
    /\ UNCHANGED <<router, agentVars, exVars, cliVars>>

RouterNext ==
    \/ \E name \in ToolNames, instance \in RouterInstances :
         \E raiseAt \in CanRaiseAt(instance) : RouterRegister(name, instance, raiseAt)
    \/ \E name \in RouterKeys : RouterGetTool(name)
    \/ \E tool_data \in RouterPayloads : RouterCallTool(tool_data)

RouterSpec == Init /\ [][RouterNext]_vars

(***************************************************************************)
(* AgentCLI.run and ThinkingDots: the main thread walks the loop of the    *)
(* CLI, entering ThinkingDots.start and stop statement by statement, while *)
(* the worker threads take their own steps in between.  agent.run is one   *)
(* step here: it returns a reply or leaves with the model call's error.    *)
(***************************************************************************)
max_dots == 5

\* _format_line: the number of dots shown for a count
FormatLine(dots_count) == dots_count % (max_dots + 1)

\* Thread.is_alive()
IsAlive(t) == t \in 1..Len(threads) /\ threads[t].pc # "dead"

\* str.lower() on the words typed
Lower(s) ==
    [i \in 1..Len(s) |->
        CASE s[i] \in {"Exit", "EXIT"} -> "exit"
          [] s[i] = "Can" -> "can"
          [] s[i] = "I" -> "i"
          [] s[i] = "Japan" -> "japan"
          [] OTHER -> s[i]]

\* what the user types at the prompt
CliInputs ==
    { <<"exit">>, <<" ", "Exit", "\n">>, <<"exit", " ", "now">>,
      <<"Can", " ", "I", " ", "go", " ", "to", " ", "Japan", "?">> }

\* what agent.run returns to the CLI
CliReplies == { ErrorReply(NoToolCallMessage), JsonDumps(NormalizeResult(MkStr(<<"ok">>))) }

\* print of the banner before the loop
CliBanner ==
    /\ cli_pc = "banner"
    /\ console' = Written(0, "banner", 0)
    /\ cli_pc' = "input"
    /\ UNCHANGED <<cli_reply, cli_exc, dots_pc, stop_event, thread, threads>>
    /\ UNCHANGED <<agentVars, exVars, routerVars>>

\* input(...).strip(), then the test for exit
CliInput(typed) ==
    /\ cli_pc = "input"
    /\ IF Lower(Strip(typed)) = <<"exit">>
       THEN /\ console' = Written(0, "bye", 0)
            /\ cli_pc' = "exited"
       ELSE /\ console' = Written(0, "prompt", 0)
            /\ cli_pc' = "dots_start"
    /\ UNCHANGED <<cli_reply, cli_exc, dots_pc, stop_event, thread, threads>>
    /\ UNCHANGED <<agentVars, exVars, routerVars>>

\* input raises (end of input): the exception leaves run
CliInputRaises ==
    /\ cli_pc = "input"
    /\ console' = Written(0, "prompt", 0)
    /\ cli_exc' = TRUE
    /\ cli_pc' = "propagated"
    /\ UNCHANGED <<cli_reply, dots_pc, stop_event, thread, threads>>
    /\ UNCHANGED <<agentVars, exVars, routerVars>>

\* self.dots.start() is entered
CliCallStart ==
    /\ cli_pc = "dots_start"
    /\ dots_pc = "none"
    /\ cli_pc' = "in_start"
    /\ dots_pc' = "start_check"
    /\ UNCHANGED <<cli_reply, cli_exc, stop_event, thread, threads, console>>
    /\ UNCHANGED <<agentVars, exVars, routerVars>>

\* variant: start never returns early
StartCheck_Always ==
    /\ dots_pc = "start_check"
    /\ dots_pc' = "start_clear"
    /\ UNCHANGED <<cli_pc, cli_reply, cli_exc, stop_event, thread, threads, console>>
    /\ UNCHANGED <<agentVars, exVars, routerVars>>

\* start: if self._thread and self._thread.is_alive(): return
StartCheck ==
    /\ dots_pc = "start_check"
    /\ dots_pc' = IF thread # 0 /\ IsAlive(thread) THEN "return" ELSE "start_clear"
    /\ UNCHANGED <<cli_pc, cli_reply, cli_exc, stop_event, thread, threads, console>>
    /\ UNCHANGED <<agentVars, exVars, routerVars>>

\* start: self._stop_event.clear()
StartClear ==
    /\ dots_pc = "start_clear"
    /\ stop_event' = FALSE
    /\ dots_pc' = "start_thread"
    /\ UNCHANGED <<cli_pc, cli_reply, cli_exc, thread, threads, console>>
    /\ UNCHANGED <<agentVars, exVars, routerVars>>

\* start: the Thread is created, stored and started; its worker stands
\* before its first test of the event
StartThread ==
    /\ dots_pc = "start_thread"
    /\ Len(threads) < MaxThreads
    /\ threads' = Append(threads, [pc |-> "test", dots_count |-> 0, last |-> "none"])
    /\ thread' = Len(threads) + 1
    /\ dots_pc' = "return"
    /\ UNCHANGED <<cli_pc, cli_reply, cli_exc, stop_event, console>>
    /\ UNCHANGED <<agentVars, exVars, routerVars>>

\* start has returned: the try block is entered
CliStartReturns ==
    /\ cli_pc = "in_start"
    /\ dots_pc = "return"
    /\ cli_pc' = "agent_run"
    /\ dots_pc' = "none"
    /\ UNCHANGED <<cli_reply, cli_exc, stop_event, thread, threads, console>>
    /\ UNCHANGED <<agentVars, exVars, routerVars>>

\* reply = self.agent.run(user_input) returns; the finally block is next
CliAgentReturns(text) ==
    /\ cli_pc = "agent_run"
    /\ cli_reply' = text
    /\ cli_pc' = "finally"
    /\ UNCHANGED <<cli_exc, dots_pc, stop_event, thread, threads, console>>
    /\ UNCHANGED <<agentVars, exVars, routerVars>>

\* variant: no finally block, the exception leaves run at once
CliAgentRaises_NoFinally ==
    /\ cli_pc = "agent_run"
    /\ cli_exc' = TRUE
    /\ cli_pc' = "propagated"
    /\ UNCHANGED <<cli_reply, dots_pc, stop_event, thread, threads, console>>
    /\ UNCHANGED <<agentVars, exVars, routerVars>>

\* self.agent.run(user_input) raises; the finally block runs with the
\* exception pending
CliAgentRaises ==
    /\ cli_pc = "agent_run"
    /\ cli_exc' = TRUE
    /\ cli_pc' = "finally"
    /\ UNCHANGED <<cli_reply, dots_pc, stop_event, thread, threads, console>>
    /\ UNCHANGED <<agentVars, exVars, routerVars>>

\* finally: self.dots.stop() is entered
CliCallStop ==
    /\ cli_pc = "finally"
    /\ dots_pc = "none"
    /\ cli_pc' = "in_stop"
    /\ dots_pc' = "stop_check"
    /\ UNCHANGED <<cli_reply, cli_exc, stop_event, thread, threads, console>>
    /\ UNCHANGED <<agentVars, exVars, routerVars>>

\* stop: if not self._thread or not self._thread.is_alive(): return
StopCheck ==
    /\ dots_pc = "stop_check"
    /\ dots_pc' = IF thread = 0 \/ ~IsAlive(thread) THEN "return" ELSE "stop_set"
    /\ UNCHANGED <<cli_pc, cli_reply, cli_exc, stop_event, thread, threads, console>>
    /\ UNCHANGED <<agentVars, exVars, routerVars>>

\* stop: self._stop_event.set()
StopSet ==
    /\ dots_pc = "stop_set"
    /\ stop_event' = TRUE
    /\ dots_pc' = "stop_join"
    /\ UNCHANGED <<cli_pc, cli_reply, cli_exc, thread, threads, console>>
    /\ UNCHANGED <<agentVars, exVars, routerVars>>

\* variant: join returns without waiting for the thread
StopJoin_NoWait ==
    /\ dots_pc = "stop_join"
    /\ dots_pc' = "return"
    /\ UNCHANGED <<cli_pc, cli_reply, cli_exc, stop_event, thread, threads, console>>
    /\ UNCHANGED <<agentVars, exVars, routerVars>>

\* stop: self._thread.join() returns once the thread has terminated
StopJoin ==
    /\ dots_pc = "stop_join"
    /\ ~IsAlive(thread)
    /\ dots_pc' = "return"
    /\ UNCHANGED <<cli_pc, cli_reply, cli_exc, stop_event, thread, threads, console>>
    /\ UNCHANGED <<agentVars, exVars, routerVars>>

\* stop has returned: the pending exception leaves run, or the reply is
\* about to be printed
CliStopReturns ==
    /\ cli_pc = "in_stop"
    /\ dots_pc = "return"
    /\ cli_pc' = IF cli_exc THEN "propagated" ELSE "print"
    /\ dots_pc' = "none"
    /\ UNCHANGED <<cli_reply, cli_exc, stop_event, thread, threads, console>>
    /\ UNCHANGED <<agentVars, exVars, routerVars>>

\* print("Agent:", reply) and the rule under it; back to the prompt
CliPrint ==
    /\ cli_pc = "print"
    /\ console' = Written(0, "reply", 0)
    /\ cli_pc' = "input"
    /\ UNCHANGED <<cli_reply, cli_exc, dots_pc, stop_event, thread, threads>>
    /\ UNCHANGED <<agentVars, exVars, routerVars>>

\* _worker: while not self._stop_event.is_set()
WorkerTest(t) ==
    /\ t \in 1..Len(threads)
    /\ threads[t].pc = "test"
    /\ stop_event \/ threads[t].dots_count < MaxTicks
    /\ threads' = [threads EXCEPT ![t].pc = IF stop_event THEN "clear" ELSE "write"]
    /\ UNCHANGED <<cli_pc, cli_reply, cli_exc, dots_pc, stop_event, thread, console>>
    /\ UNCHANGED <<agentVars, exVars, routerVars>>

\* _worker: the line of dots is written and flushed, dots_count += 1
WorkerWrite(t) ==
    /\ t \in 1..Len(threads)
    /\ threads[t].pc = "write"
    /\ console' = Written(t, "line", FormatLine(threads[t].dots_count))
    /\ threads' = [threads EXCEPT ![t].pc = "sleep",
                                  ![t].dots_count = @ + 1,
                                  ![t].last = "line"]
    /\ UNCHANGED <<cli_pc, cli_reply, cli_exc, dots_pc, stop_event, thread>>
    /\ UNCHANGED <<agentVars, exVars, routerVars>>

\* _worker: time.sleep(self.interval) returns
WorkerWake(t) ==
    /\ t \in 1..Len(threads)
    /\ threads[t].pc = "sleep"
    /\ threads' = [threads EXCEPT ![t].pc = "test"]
    /\ UNCHANGED <<cli_pc, cli_reply, cli_exc, dots_pc, stop_event, thread, console>>
    /\ UNCHANGED <<agentVars, exVars, routerVars>>

\* _worker: self._clear_line(), then the thread terminates
WorkerClear(t) ==
    /\ t \in 1..Len(threads)
    /\ threads[t].pc = "clear"
    /\ console' = Written(t, "clear", 0)
    /\ threads' = [threads EXCEPT ![t].pc = "dead", ![t].last = "clear"]
    /\ UNCHANGED <<cli_pc, cli_reply, cli_exc, dots_pc, stop_event, thread>>
    /\ UNCHANGED <<agentVars, exVars, routerVars>>

\* one step of the worker of thread t
Worker(t) == WorkerTest(t) \/ WorkerWrite(t) \/ WorkerWake(t) \/ WorkerClear(t)

CliNext ==
    \/ CliBanner
    \/ \E typed \in CliInputs : CliInput(typed)
    \/ CliInputRaises
    \/ CliCallStart
    \/ StartCheck
    \/ StartClear
    \/ StartThread
    \/ CliStartReturns
    \/ \E text \in CliReplies : CliAgentReturns(text)
    \/ CliAgentRaises
    \/ CliCallStop
    \/ StopCheck
    \/ StopSet
    \/ StopJoin
    \/ CliStopReturns
    \/ CliPrint
    \/ \E t \in 1..MaxThreads : WorkerTest(t)
    \/ \E t \in 1..MaxThreads : WorkerWrite(t)
    \/ \E t \in 1..MaxThreads : WorkerWake(t)
    \/ \E t \in 1..MaxThreads : WorkerClear(t)

CliSpec == Init /\ [][CliNext]_vars

\* every started thread is scheduled again and again, and its sleep ends
CliFairness == \A t \in 1..MaxThreads : WF_vars(Worker(t))

CliLiveSpec == Init /\ [][CliNext]_vars /\ CliFairness

(***************************************************************************)
(* ThinkingDots on its own: one caller makes start and stop calls in any   *)
(* order, each call entered only after the one before it has returned,     *)
(* while the worker threads take their steps in between.                   *)
(***************************************************************************)
\* the caller enters start()
ClientCallsStart ==
    /\ dots_pc = "none"
    /\ dots_pc' = "start_check"
    /\ UNCHANGED <<cli_pc, cli_reply, cli_exc, stop_event, thread, threads, console>>
    /\ UNCHANGED <<agentVars, exVars, routerVars>>

\* the caller enters stop()
ClientCallsStop ==
    /\ dots_pc = "none"
    /\ dots_pc' = "stop_check"
    /\ UNCHANGED <<cli_pc, cli_reply, cli_exc, stop_event, thread, threads, console>>
    /\ UNCHANGED <<agentVars, exVars, routerVars>>

\* start or stop returns to the caller
ClientReturns ==
    /\ dots_pc = "return"
    /\ dots_pc' = "none"
    /\ UNCHANGED <<cli_pc, cli_reply, cli_exc, stop_event, thread, threads, console>>
    /\ UNCHANGED <<agentVars, exVars, routerVars>>

DotsNext ==
    \/ ClientCallsStart
    \/ ClientCallsStop
    \/ ClientReturns
    \/ StartCheck
    \/ StartClear
    \/ StartThread
    \/ StopCheck
    \/ StopSet
    \/ StopJoin
    \/ \E t \in 1..MaxThreads : WorkerTest(t)
    \/ \E t \in 1..MaxThreads : WorkerWrite(t)
    \/ \E t \in 1..MaxThreads : WorkerWake(t)
    \/ \E t \in 1..MaxThreads : WorkerClear(t)

DotsSpec == Init /\ [][DotsNext]_vars

(***************************************************************************)
(* Vocabulary of the properties                                            *)
(***************************************************************************)
\* the turns the last call of run has appended so far
Appended == SubSeq(messages, Len(start) + 1, Len(messages))
RolesOf(turns) == [i \in 1..Len(turns) |-> turns[i].role]
CountRole(turns, role) == Cardinality({i \in 1..Len(turns) : turns[i].role = role})
IsPrefix(s, t) == Len(s) <= Len(t) /\ SubSeq(t, 1, Len(s)) = s

\* the last call of run has returned / was left by the model call's exception
RunReturned == pc = "idle" /\ outcome = "returned"
RunAborted == pc = "idle" /\ outcome = "raised"

\* call_tool resolved the tool and the callable returned without raising
RoutingSucceeded == call.invoked # NoCallable /\ ~call.raised
\* call_tool was entered and raised (in the router or in the callable)
DispatchFailed == call.raised
\* the callable returned a value that json.dumps rejects
NormalizationFailed ==
    /\ RoutingSucceeded
    /\ ~Serializable(NormalizeResult(call.value))

IsValidJson(text) == JsonLoads(text).ok
\* a JSON object whose only key is "error", bound to a string
IsErrorObject(text) ==
    LET r == JsonLoads(text)
    IN  /\ r.ok
        /\ r.val.kind = "obj"
        /\ r.val.keys = << <<"error">> >>
        /\ r.val.items[1].kind = "str"
\* a JSON object with a top-level key "error"
HasErrorKey(text) ==
    LET r == JsonLoads(text)
    IN  r.ok /\ r.val.kind = "obj" /\ HasKey(r.val, <<"error">>)

\* {"error": "Model did not return valid tool call JSON."}
NoToolCallText ==
    <<"{", Quote, "error", Quote, ":", " ", Quote,
      "Model", " ", "did", " ", "not", " ", "return", " ", "valid", " ",
      "tool", " ", "call", " ", "JSON", ".", Quote, "}">>

(***************************************************************************)
(* C1: every call of run appends exactly one user turn and exactly one     *)
(* assistant turn.                                                         *)
(***************************************************************************)
\* C1 as stated: whatever the outcome of the model call, a finished call of
\* run has appended exactly one user turn and exactly one assistant turn.
C1_OneUserOneAssistantAlways ==
    (RunReturned \/ RunAborted) =>
        /\ CountRole(Appended, "user") = 1
        /\ CountRole(Appended, "assistant") = 1

\* C1 amended: a call of run that returns has appended exactly one user turn
\* and exactly one assistant turn, whatever tool dispatch did; a call left by
\* the model call's exception has appended the user turn and nothing else.
C1_OneUserOneAssistant ==
    /\ RunReturned =>
        /\ CountRole(Appended, "user") = 1
        /\ CountRole(Appended, "assistant") = 1
    /\ RunAborted => RolesOf(Appended) = <<"user">>

\* a call that returned although the tool callable raised
C1_Witness == RunReturned /\ call.invoked # NoCallable /\ call.raised

(***************************************************************************)
(* C2: a tool turn is appended iff routing succeeded; at most one per call *)
(***************************************************************************)
\* C2 as stated: when a call of run has ended, it appended a tool turn if and
\* only if call_tool resolved the tool and the callable returned normally.
C2_ToolTurnIffRouted ==
    (RunReturned \/ RunAborted) =>
        /\ CountRole(Appended, "tool") <= 1
        /\ (CountRole(Appended, "tool") = 1) <=> RoutingSucceeded

\* C2 amended: when a call of run has ended, it appended a tool turn if and
\* only if routing succeeded and the normalized result could be serialized
\* by json.dumps; never more than one tool turn per call.
C2_ToolTurnIffRoutedAndSerialized ==
    (RunReturned \/ RunAborted) =>
        /\ CountRole(Appended, "tool") <= 1
        /\ (CountRole(Appended, "tool") = 1)
             <=> (RoutingSucceeded /\ ~NormalizationFailed)

\* a call in which the callable returned and the tool turn was appended
C2_Witness == RunReturned /\ RoutingSucceeded /\ CountRole(Appended, "tool") = 1

(***************************************************************************)
(* C3: the transcript is append-only                                       *)
(***************************************************************************)
\* C3: in every step the transcript before is a prefix of the transcript
\* after, so that every earlier transcript is a prefix of every later one.
C3_AppendOnly == [][IsPrefix(messages, messages')]_vars

\* a second call, aborted by the model, after a call that appended a tool turn
C3_Witness ==
    /\ RunAborted
    /\ Len(start) >= 4
    /\ \E i \in 1..Len(start) : start[i].role = "tool"

C5_NoToolCall ==
    (RunReturned /\ (ToolData(llm_reply) = None
                     \/ ~Truthy(DictGet(ToolData(llm_reply), <<"tool">>)))) =>
        /\ RolesOf(Appended) = <<"user", "assistant">>
        /\ call = NotCalled
        /\ result = NoToolCallText

\* a payload was extracted and its tool is the empty string
C5_Witness ==
    /\ RunReturned
    /\ ToolData(llm_reply) # None
    /\ DictGet(ToolData(llm_reply), <<"tool">>) = MkStr(<<>>)

(***************************************************************************)
(* C6: errors of dispatch, of the callable and of normalization are caught *)
(***************************************************************************)
\* C6: a call in which call_tool raised, or the result could not be
\* serialized, goes on to return: the reply is an object {"error": message},
\* no tool turn is appended and the call appends user and assistant only; run
\* is left by an exception only when call_tool was never entered.
C6_DispatchErrorsCaught ==
    /\ (pc = "append_assistant" /\ (DispatchFailed \/ NormalizationFailed)) =>
         /\ IsErrorObject(reply)
         /\ RolesOf(Appended) = <<"user">>
    /\ (RunReturned /\ (DispatchFailed \/ NormalizationFailed)) =>
         /\ IsErrorObject(result)
         /\ RolesOf(Appended) = <<"user", "assistant">>
    /\ RunAborted => call = NotCalled

\* the callable returned something json.dumps rejects, and run returned
C6_Witness == RunReturned /\ NormalizationFailed

(***************************************************************************)
(* C7: a failure of the model call leaves run, the user turn stays         *)
(***************************************************************************)
\* C7: when the model call raises, run is left without a reply and without
\* an assistant turn, and the transcript is the one the call began with
\* followed by its user turn.
C7_ModelFailureKeepsUserTurn ==
    RunAborted =>
        /\ IsPrefix(start, messages)
        /\ RolesOf(Appended) = <<"user">>
        /\ messages[Len(messages)].content \in UserInputs

\* the model call raised in a call that followed a completed one
C7_Witness == RunAborted /\ Len(start) >= 3

(***************************************************************************)
(* C8: the reply is valid JSON                                             *)
(***************************************************************************)
\* C8: every text run returns parses as one JSON value, and it is either the
\* serialization of the tool's normalized result (the tool turn having been
\* appended) or an object {"error": message}.
C8_ReplyIsJson ==
    RunReturned =>
        /\ IsValidJson(result)
        /\ \/ /\ CountRole(Appended, "tool") = 1
              /\ JsonLoads(result).val = NormalizeResult(call.value)
           \/ IsErrorObject(result)

\* the tool returned text that is not JSON and holds a quote and a newline
C8_Witness ==
    /\ RunReturned
    /\ RoutingSucceeded
    /\ call.value = MkStr(<<"{", Quote, "temp", "\n">>)

(***************************************************************************)
(* C9: failure is detected by the "error" key                              *)
(***************************************************************************)
\* C9: the reply of a call that returned is an object with the single key
\* "error" exactly when no tool turn was appended, and the reply of a call
\* that appended a tool turn has no top-level "error" key.
C9_ErrorKeyIffFailure ==
    RunReturned =>
        /\ IsErrorObject(result) <=> (CountRole(Appended, "tool") = 0)
        /\ (CountRole(Appended, "tool") = 1) => ~HasErrorKey(result)

(***************************************************************************)
(* C10: extract_json returns the qualifying object at the smallest offset  *)
(***************************************************************************)
\* the offsets at which a mapping with every required key parses
Qualifying(text, properties) ==
    {i \in 1..Len(text) :
        /\ text[i] = "{"
        /\ RawDecode(text, i).ok
        /\ RawDecode(text, i).val.kind = "obj"
        /\ \A n \in 1..Len(properties) :
             \E m \in 1..Len(RawDecode(text, i).val.keys) :
                RawDecode(text, i).val.keys[m] = properties[n]}

\* C10: extract_json returns the value parsed at the smallest qualifying
\* offset, and None when there is none (no brace at all included).
C10_FirstQualifyingObject ==
    ex_done =>
        LET offsets == Qualifying(ex_text, ex_props)
        IN  IF offsets = {}
            THEN ex_result = None
            ELSE \E i \in offsets :
                    /\ \A j \in offsets : i <= j
                    /\ ex_result = RawDecode(ex_text, i).val

\* an earlier brace fails to parse, a mapping lacking a key follows, and the
\* object returned lies behind both
C10_Witness ==
    /\ ex_done
    /\ ex_props = PROPS
    /\ ex_result # None
    /\ \E i, j \in 1..Len(ex_text) :
         /\ i < j
         /\ ex_text[i] = "{" /\ ~RawDecode(ex_text, i).ok
         /\ ex_text[j] = "{" /\ RawDecode(ex_text, j).ok
         /\ j \notin Qualifying(ex_text, ex_props)
         /\ \A k \in Qualifying(ex_text, ex_props) : j < k

(***************************************************************************)
(* C11: an object with every required key, embedded in other text          *)
(***************************************************************************)
\* C11 as stated: wherever an object with every required key stands in the
\* text, whatever precedes and follows it, extract_json returns that object.
C11_EmbeddedObjectAlways ==
    ex_done =>
        \A i \in Qualifying(ex_text, ex_props) :
            ex_result = RawDecode(ex_text, i).val

\* C11 amended: an object with every required key is returned, whatever
\* follows it, when no object with every required key parses at an offset of
\* the text before it; otherwise the one parsing at the smallest offset is
\* returned instead.
C11_EmbeddedObject ==
    ex_done =>
        \A i \in Qualifying(ex_text, ex_props) :
            IF \A j \in 1..(i - 1) : j \notin Qualifying(ex_text, ex_props)
            THEN ex_result = RawDecode(ex_text, i).val
            ELSE ex_result # None

\* the payload stands behind prose and before more text, and is returned
C11_Witness ==
    /\ ex_done
    /\ ex_props = PROPS
    /\ \E i \in Qualifying(ex_text, ex_props) :
         /\ i > 1
         /\ ex_text[1] # "{"
         /\ i + Len(GoodPayload) - 1 < Len(ex_text)
         /\ SubSeq(ex_text, i, i + Len(GoodPayload) - 1) = GoodPayload
         /\ ex_result = RawDecode(ex_text, i).val

(***************************************************************************)
(* C12: registering a name a second time                                   *)
(***************************************************************************)
DuplicateError(name) ==
    <<"Tool", " ", "instance", " ", "already", " ", "registered", ":", " ">> \o name
UnknownToolError(name) == <<"Unknown", " ", "tool", ":", " ">> \o name
EmptyNameError == <<"Tool", " ", "name", " ", "is", " ", "empty", ".">>

\* C12: register_tool_instance under a name that is registered already raises
\* the duplicate error and leaves both maps as they were; every method key of
\* the first registration still resolves to the same callable, and
\* dispatching it still invokes that callable.
C12_DuplicateChangesNothing ==
    (rt_call.op = "register" /\ rt_call.name \in DOMAIN rt_before.tool_instances) =>
        /\ rt_end.raised
        /\ rt_end.error = DuplicateError(rt_call.name)
        /\ router.tool_instances = rt_before.tool_instances
        /\ router.tool_methods = rt_before.tool_methods
        /\ \A k \in DOMAIN rt_before.tool_methods :
             /\ get_tool(router, k) = Returned(rt_before.tool_methods[k])
             /\ \A end \in call_tool(router,
                                      MkObj(<< <<"tool">>, <<"arguments">> >>,
                                            << MkStr(k), MkObj(<<>>, <<>>) >>)) :
                  end.invoked = rt_before.tool_methods[k]

\* a second, different instance was offered under a name whose first
\* registration had recorded a method
C12_Witness ==
    /\ rt_call.op = "register"
    /\ rt_call.name \in DOMAIN rt_before.tool_instances
    /\ rt_call.instance # rt_before.tool_instances[rt_call.name]
    /\ \E k \in DOMAIN rt_before.tool_methods :
         rt_before.tool_methods[k].cls = rt_before.tool_instances[rt_call.name].cls

(***************************************************************************)
(* C13: what a successful registration adds                                *)
(***************************************************************************)
\* the members of an instance that are callable and not named with a
\* leading underscore
PublicCallables(instance) ==
    { instance.dir[i].name : i \in { j \in 1..Len(instance.dir) :
        /\ instance.dir[j].callable
        /\ Head(instance.dir[j].name) # "_" } }

\* C13: a register_tool_instance that returns has added one method entry
\* name.member for each public callable member, bound to that member, and
\* nothing else; the entries that were there before are all still there and
\* bound as before.
C13_RegisterAddsPublicCallables ==
    (rt_call.op = "register" /\ ~rt_end.raised) =>
        LET added == { rt_call.name \o <<".">> \o m :
                         m \in PublicCallables(rt_call.instance) }
        IN  /\ DOMAIN router.tool_methods = DOMAIN rt_before.tool_methods \cup added
            /\ added \cap DOMAIN rt_before.tool_methods = {}
            /\ Cardinality(added) = Cardinality(PublicCallables(rt_call.instance))
            /\ \A m \in PublicCallables(rt_call.instance) :
                 router.tool_methods[rt_call.name \o <<".">> \o m]
                    = Callable(rt_call.instance, m)
            /\ \A k \in DOMAIN rt_before.tool_methods :
                 router.tool_methods[k] = rt_before.tool_methods[k]

\* an instance with a private callable and a data member was registered
\* beside an earlier registration
C13_Witness ==
    /\ rt_call.op = "register"
    /\ ~rt_end.raised
    /\ rt_call.instance = StubTool
    /\ DOMAIN rt_before.tool_methods # {}

(***************************************************************************)
(* C14: get_tool                                                           *)
(***************************************************************************)
\* C14: get_tool returns the callable bound to exactly the key it is given,
\* raises the unknown-tool error when that key is absent, and leaves both maps
\* of the router as they were.
C14_GetToolExactKey ==
    rt_call.op = "get_tool" =>
        /\ router = rt_before
        /\ IF rt_call.name \in DOMAIN rt_before.tool_methods
           THEN /\ ~rt_end.raised
                /\ rt_end.callable = rt_before.tool_methods[rt_call.name]
           ELSE /\ rt_end.raised
                /\ rt_end.error = UnknownToolError(rt_call.name)
                /\ rt_end.callable = NoCallable

\* the short name was asked for while travel_info.get_info is a key
C14_Witness ==
    /\ rt_call.op = "get_tool"
    /\ rt_call.name = TOOL_NAME
    /\ TOOL_FULL_NAME \in DOMAIN router.tool_methods
    /\ rt_end.raised

(***************************************************************************)
(* C15: the one rewrite of call_tool                                       *)
(***************************************************************************)
\* a payload with both keys
WellFormed(tool_data) ==
    HasKey(tool_data, <<"tool">>) /\ HasKey(tool_data, <<"arguments">>)

\* the payload {"tool": name, "arguments": arguments}
Request(name, arguments) ==
    MkObj(<< <<"tool">>, <<"arguments">> >>, << MkStr(name), arguments >>)

\* C15: the name call_tool looks up is the supplied one, except that the
\* supplied travel_info is looked up as travel_info.get_info; and whatever
\* is registered, a payload naming travel_info ends in every way, callable
\* invoked and keyword arguments handed over included, as the same payload
\* naming travel_info.get_info does.
C15_OneRewrite ==
    /\ (rt_call.op = "call_tool" /\ WellFormed(rt_call.tool_data)
                                 /\ PayloadTool(rt_call.tool_data).kind = "str"
                                 /\ PayloadTool(rt_call.tool_data).str # <<>>) =>
          rt_end.resolved = IF PayloadTool(rt_call.tool_data).str = TOOL_NAME
                            THEN TOOL_FULL_NAME
                            ELSE PayloadTool(rt_call.tool_data).str
    /\ \A arguments \in RouterArguments :
          call_tool(router, Request(TOOL_NAME, arguments))
            = call_tool(router, Request(TOOL_FULL_NAME, arguments))

\* the short name was dispatched and get_info of the travel tool was invoked
\* with the payload's arguments
C15_Witness ==
    /\ rt_call.op = "call_tool"
    /\ WellFormed(rt_call.tool_data)
    /\ PayloadTool(rt_call.tool_data) = MkStr(TOOL_NAME)
    /\ rt_end.invoked = Callable(TravelInfo, <<"get_info">>)
    /\ rt_end.kwargs = MkObj(<< <<"country_to">> >>, << MkStr(<<"Japan">>) >>)
    /\ ~rt_end.raised

(***************************************************************************)
(* C16: call_tool raises on an empty name and catches nothing              *)
(***************************************************************************)
\* call_tool ended as the invoked callable did, called with the payload's
\* arguments
EndedAsCallable ==
    /\ rt_end.resolved \in DOMAIN rt_before.tool_methods
    /\ rt_end.invoked = rt_before.tool_methods[rt_end.resolved]
    /\ rt_end.kwargs = PayloadArguments(rt_call.tool_data)
    /\ \E e \in Invoke(rt_end.invoked, rt_end.kwargs) :
         /\ e.raised = rt_end.raised
         /\ e.error = rt_end.error
         /\ e.value = rt_end.value
\* call_tool was left by the unknown-tool error of get_tool
EndedUnknownTool ==
    /\ rt_end.resolved \notin DOMAIN rt_before.tool_methods
    /\ rt_end.raised
    /\ rt_end.error = UnknownToolError(rt_end.resolved)
    /\ rt_end.invoked = NoCallable
\* call_tool was left before anything was resolved or invoked
EndedBeforeResolving(error) ==
    /\ rt_end.raised
    /\ rt_end.error = error
    /\ rt_end.resolved = <<>>
    /\ rt_end.invoked = NoCallable

C17_EnvelopeNamesInvokedCallable ==
    (RunReturned /\ RoutingSucceeded /\ ~NormalizationFailed) =>
        LET R == NormalizeResult(call.value)
            T == MkStr(call.resolved)
        IN  /\ RolesOf(Appended) = <<"user", "tool", "assistant">>
            /\ Appended[2].content
                 = JsonDumps(MkObj(<< <<"tool">>, <<"result">> >>, <<T, R>>))
            /\ result = JsonDumps(R)

(***************************************************************************)
(* C18: normalization of the tool's return value                           *)
(***************************************************************************)
\* the member "result" of the envelope in the tool turn of the last call
EnvelopeResult ==
    DictGet(JsonLoads(Appended[2].content).val, <<"result">>)

\* C18: in the tool turn of a call, the result is the parsed mapping when
\* the callable returned text that parses as a JSON mapping, {raw: text} when
\* it returned text that does not parse as JSON, and the returned value
\* itself when it returned something that is not text; the reply is the
\* serialization of that same result.
C18_NormalizedResult ==
    (RunReturned /\ CountRole(Appended, "tool") = 1) =>
        LET raw == call.value
            parsed == JsonLoads(raw.str)
        IN  /\ (raw.kind = "str" /\ parsed.ok /\ parsed.val.kind = "obj") =>
                 /\ EnvelopeResult = parsed.val
                 /\ result = JsonDumps(parsed.val)
            /\ (raw.kind = "str" /\ ~parsed.ok) =>
                 /\ EnvelopeResult = MkObj(<< <<"raw">> >>, << raw >>)
                 /\ result = JsonDumps(MkObj(<< <<"raw">> >>, << raw >>))
            /\ raw.kind # "str" =>
                 /\ EnvelopeResult = raw
                 /\ result = JsonDumps(raw)

\* the callable returned text that is no JSON, and it came back wrapped
C18_Witness ==
    /\ RunReturned
    /\ CountRole(Appended, "tool") = 1
    /\ call.value = MkStr(<<"sunny", " ", "today">>)
    /\ EnvelopeResult = MkObj(<< <<"raw">> >>, << MkStr(<<"sunny", " ", "today">>) >>)

(***************************************************************************)
(* C19: the indicator is stopped on every way out of the call of run       *)
(***************************************************************************)
\* C19: whenever the CLI is about to print the reply, has let an exception
\* leave its loop, is back at the prompt or has said goodbye, no worker
\* thread is alive; a worker is alive only between start and the return of
\* stop in the finally block.
C19_IndicatorStoppedOnEveryExit ==
    /\ cli_pc \in {"print", "propagated", "input", "exited"} =>
         \A t \in 1..Len(threads) : ~IsAlive(t)
    /\ (\E t \in 1..Len(threads) : IsAlive(t)) =>
         cli_pc \in {"in_start", "agent_run", "finally", "in_stop"}

\* agent.run raised while the worker had written dots; the exception has
\* left the loop and the worker is dead
C19_Witness ==
    /\ cli_pc = "propagated"
    /\ cli_exc
    /\ thread # 0
    /\ threads[thread].dots_count > 0
    /\ ~IsAlive(thread)

(***************************************************************************)
(* C20: stop waits for the worker                                          *)
(***************************************************************************)
\* stop has just returned to the finally block
StopReturned == cli_pc = "in_stop" /\ dots_pc = "return"

\* C20: when stop returns, the thread it found alive has terminated; a
\* terminated worker's last write is the clearing of the line; a terminated
\* worker takes no step and writes nothing; and a worker that is alive when
\* the stop event is set eventually terminates.
C20_StopWaitsForWorker ==
    /\ [](StopReturned => (thread # 0 /\ ~IsAlive(thread)))
    /\ [](\A t \in 1..Len(threads) :
            ~IsAlive(t) => /\ threads[t].last = "clear"
                           /\ (console.by = t => console.text = "clear"))
    /\ [][\A t \in 1..Len(threads) :
            ~IsAlive(t) => /\ threads'[t] = threads[t]
                           /\ (console' # console => console'.by # t)]_vars
    /\ \A t \in 1..MaxThreads :
          (IsAlive(t) /\ stop_event) ~> (t \in 1..Len(threads) /\ ~IsAlive(t))

\* stop has returned after the worker, which had written a line of dots,
\* cleared the line and terminated
C20_Witness ==
    /\ StopReturned
    /\ stop_event
    /\ thread # 0
    /\ threads[thread].pc = "dead"
    /\ threads[thread].dots_count > 0
    /\ console = Written(thread, "clear", 0)

(***************************************************************************)
(* C21: what fence stripping removes                                       *)
(***************************************************************************)
\* the reply without a fence marker at its start (with the tag json behind
\* it, if any) and without one at its end, white space around it dropped
OuterFencesRemoved(text) ==
    LET s == Strip(text)
        a == IF s # <<>> /\ Head(s) = Fence
             THEN IF Len(s) >= 2 /\ s[2] = "json"
                  THEN SubSeq(s, 3, Len(s))
                  ELSE Tail(s)
             ELSE s
        b == IF a # <<>> /\ a[Len(a)] = Fence
             THEN SubSeq(a, 1, Len(a) - 1)
             ELSE a
    IN  Strip(b)

\* C21: the text handed to extract_json is the model's reply with the fence
\* markers at its start and end removed and nothing else changed, so that a
\* fence-like token inside the payload is still there.
C21_OnlyOuterFencesRemoved ==
    pc \in {"process", "append_assistant"} =>
        Stripped(llm_reply) = OuterFencesRemoved(llm_reply)

(***************************************************************************)
(* C22: the order of the stages of a call of run                           *)
(***************************************************************************)
StageOrder ==
    <<"append_user", "model_call", "strip", "extract", "dispatch",
      "append_tool", "append_assistant", "return">>
Rank(stage) == CHOOSE i \in 1..Len(StageOrder) : StageOrder[i] = stage
Done(stage) == \E i \in 1..Len(hist.stages) : hist.stages[i] = stage

\* C22: the stages a call has gone through are in the order append-user,
\* model call, fence stripping, extraction, dispatch, append-tool,
\* append-assistant, return, none of them twice; the transcript handed to
\* the model is the whole transcript at that moment and ends with the call's
\* user turn; no tool is invoked while the model call is outstanding; a call
\* that returned went through append-assistant and return last.
C22_StagesInOrder ==
    /\ \A i, j \in 1..Len(hist.stages) :
          i < j => Rank(hist.stages[i]) < Rank(hist.stages[j])
    /\ outcome # "none" => hist.stages[1] = "append_user"
    /\ Done("model_call") =>
          /\ hist.sent = Append(start, hist.sent[Len(hist.sent)])
          /\ hist.sent[Len(hist.sent)].role = "user"
          /\ IsPrefix(hist.sent, messages)
    /\ pc = "process" => hist.sent = messages
    /\ pc = "get_reply" => (call = NotCalled /\ ~Done("dispatch"))
    /\ call.invoked # NoCallable =>
          (Done("model_call") /\ Done("strip") /\ Done("extract") /\ Done("dispatch"))
    /\ Done("append_tool") <=> (outcome # "none" /\ CountRole(Appended, "tool") = 1)
    /\ Done("append_assistant") <=>
          (outcome # "none" /\ CountRole(Appended, "assistant") = 1)
    /\ RunReturned =>
          /\ Done("extract")
          /\ SubSeq(hist.stages, Len(hist.stages) - 1, Len(hist.stages))
               = <<"append_assistant", "return">>

\* a call went through all eight stages, after an earlier call
C22_Witness ==
    /\ RunReturned
    /\ hist.stages = StageOrder
    /\ Len(start) >= 3

(***************************************************************************)
(* C23: nothing is retried                                                 *)
(***************************************************************************)
\* C23: a call of run that has ended, returned or left by the model's error,
\* called the model exactly once and a tool callable at most once, also when
\* dispatch failed; while it runs neither count exceeds one.
C23_NoRetry ==
    /\ hist.model_calls <= 1
    /\ hist.tool_calls <= 1
    /\ (RunReturned \/ RunAborted) => hist.model_calls = 1
    /\ RunAborted => hist.tool_calls = 0
    /\ (RunReturned /\ call.invoked # NoCallable) => hist.tool_calls = 1

\* the callable raised, and the call returned after that one invocation
C23_Witness ==
    /\ RunReturned
    /\ call.invoked = Callable(StubTool, <<"run">>)
    /\ call.raised
    /\ hist.tool_calls = 1
    /\ hist.model_calls = 1

(***************************************************************************)
(* C24: the system turn                                                    *)
(***************************************************************************)
SystemTurn == [role |-> "system", content |-> APP_SYSTEM_CONTENT]

\* C24: before any call of run the transcript is the system turn alone; in
\* every state its first turn is the system turn and no other turn has the
\* role system; and every step that changes the transcript appends exactly
\* one turn to it.
C24_SystemTurnFirstAndOnly ==
    /\ [](/\ outcome = "none" => messages = <<SystemTurn>>
          /\ messages # <<>>
          /\ messages[1] = SystemTurn
          /\ CountRole(messages, "system") = 1)
    /\ [][messages' # messages =>
            /\ Len(messages') = Len(messages) + 1
            /\ SubSeq(messages', 1, Len(messages)) = messages]_vars

\* two calls have ended, the system turn still first
C24_Witness ==
    /\ pc = "idle"
    /\ Len(messages) >= 6
    /\ messages[1] = SystemTurn

(***************************************************************************)
(* C25: the roles of the transcript between calls                          *)
(***************************************************************************)
\* a sequence of groups user / user tool assistant / user assistant
RECURSIVE MatchesGroups(_)
MatchesGroups(roles) ==
    IF roles = <<>> THEN TRUE
    ELSE IF Len(roles) >= 3 /\ SubSeq(roles, 1, 3) = <<"user", "tool", "assistant">>
    THEN MatchesGroups(SubSeq(roles, 4, Len(roles)))
    ELSE IF Len(roles) >= 2 /\ SubSeq(roles, 1, 2) = <<"user", "assistant">>
    THEN MatchesGroups(SubSeq(roles, 3, Len(roles)))
    ELSE IF roles[1] = "user"
    THEN MatchesGroups(Tail(roles))
    ELSE FALSE

\* C25: between calls of run the roles are system followed by groups user,
\* user tool assistant or user assistant; the call that just ended added the
\* group user alone exactly when its model call raised; a tool turn stands
\* between a user turn and an assistant turn, and an assistant turn stands
\* behind a user or a tool turn.
C25_RoleGrammar ==
    pc = "idle" =>
        LET roles == RolesOf(messages)
        IN  /\ roles[1] = "system"
            /\ MatchesGroups(Tail(roles))
            /\ RunAborted <=> (outcome # "none" /\ RolesOf(Appended) = <<"user">>)
            /\ RunReturned =>
                 RolesOf(Appended) \in {<<"user", "tool", "assistant">>,
                                        <<"user", "assistant">>}
            /\ \A i \in 1..Len(roles) :
                 /\ roles[i] = "tool" =>
                      /\ roles[i - 1] = "user"
                      /\ i < Len(roles)
                      /\ roles[i + 1] = "assistant"
                 /\ roles[i] = "assistant" => roles[i - 1] \in {"user", "tool"}

\* an aborted call's lone user turn is followed by a full group
C25_Witness ==
    /\ pc = "idle"
    /\ RolesOf(messages) = <<"system", "user", "user", "tool", "assistant">>

(***************************************************************************)
(* C26: the reply is the last turn                                         *)
(***************************************************************************)
\* C26: when run has returned, the last turn of the transcript is an
\* assistant turn whose content is the text returned; when the call appended
\* a tool turn, the result member of its envelope, serialized, is that text.
C26_ReplyIsLastTurn ==
    RunReturned =>
        /\ messages[Len(messages)] = [role |-> "assistant", content |-> result]
        /\ CountRole(Appended, "tool") = 1 =>
             /\ messages[Len(messages) - 1].role = "tool"
             /\ JsonDumps(DictGet(JsonLoads(messages[Len(messages) - 1].content).val,
                                  <<"result">>)) = result

\* the tool returned a mapping, which is both in the envelope and the reply
C26_Witness ==
    /\ RunReturned
    /\ call.value = MkObj(<< <<"temp">> >>, << MkNum(<<"1">>) >>)
    /\ messages[Len(messages) - 1].role = "tool"
    /\ messages[Len(messages)].content = result

(***************************************************************************)
(* C27: the router's empty-name error cannot come out of run               *)
(***************************************************************************)
\* C27: call_tool never ends with the empty-name error inside run and run
\* never returns it; a payload whose tool is falsy never reaches call_tool,
\* and the reply is the fixed no-tool-call error.
C27_EmptyNameErrorUnreachable ==
    /\ call.error # EmptyNameError
    /\ reply # ErrorReply(EmptyNameError)
    /\ result # ErrorReply(EmptyNameError)
    /\ (pc \in {"append_assistant", "idle"} /\ outcome \in {"running", "returned"}
          /\ ToolData(llm_reply) # None
          /\ ~Truthy(DictGet(ToolData(llm_reply), <<"tool">>))) =>
          /\ call = NotCalled
          /\ ~Done("dispatch")
          /\ reply = NoToolCallText

\* the payload's tool was the number 0 and the call returned
C27_Witness ==
    /\ RunReturned
    /\ ToolData(llm_reply) # None
    /\ DictGet(ToolData(llm_reply), <<"tool">>) = MkNum(<<"0">>)
    /\ result = NoToolCallText

(***************************************************************************)
(* C28: the keys of the method map                                         *)
(***************************************************************************)
HasDot(name) == \E i \in 1..Len(name) : name[i] = "."

\* C28: every key of the method map is name.member for a registered name
\* and a member of the instance registered under it, bound to that member,
\* so it holds a dot; and call_tool for a non-empty text name without a dot,
\* other than travel_info, ends with the unknown-tool error for that name.
C28_MethodKeysAreDotted ==
    /\ \A k \in DOMAIN router.tool_methods :
          /\ HasDot(k)
          /\ \E n \in DOMAIN router.tool_instances :
               \E j \in 1..Len(router.tool_instances[n].dir) :
                  /\ k = n \o <<".">> \o router.tool_instances[n].dir[j].name
                  /\ router.tool_methods[k]
                       = Callable(router.tool_instances[n],
                                  router.tool_instances[n].dir[j].name)
    /\ (rt_call.op = "call_tool" /\ WellFormed(rt_call.tool_data)
          /\ PayloadTool(rt_call.tool_data).kind = "str"
          /\ PayloadTool(rt_call.tool_data).str # <<>>
          /\ ~HasDot(PayloadTool(rt_call.tool_data).str)
          /\ PayloadTool(rt_call.tool_data).str # TOOL_NAME) =>
          /\ EndedUnknownTool
          /\ rt_end.error = UnknownToolError(PayloadTool(rt_call.tool_data).str)

\* the registered short name stub was dispatched while stub.run is a key
C28_Witness ==
    /\ rt_call.op = "call_tool"
    /\ WellFormed(rt_call.tool_data)
    /\ PayloadTool(rt_call.tool_data) = MkStr(<<"stub">>)
    /\ <<"stub">> \in DOMAIN router.tool_instances
    /\ <<"stub", ".", "run">> \in DOMAIN router.tool_methods
    /\ rt_end.raised

(***************************************************************************)
(* C29: a registration left by an exception                                *)
(***************************************************************************)
\* the public callables of an instance that dir() lists before position i
PublicCallablesBefore(instance, i) ==
    { instance.dir[j].name : j \in { m \in 1..(i - 1) :
        /\ instance.dir[m].callable
        /\ Head(instance.dir[m].name) # "_" } }

\* C29: when reading a public property raises during a registration under a
\* new name, the name is in the instance map all the same, the method map has
\* gained the public callables listed before that property and no others,
\* and registering the name again raises the duplicate error.
C29_RegisterNotAtomic ==
    (rt_call.op = "register" /\ rt_end.raised
        /\ rt_call.name \notin DOMAIN rt_before.tool_instances) =>
        /\ rt_call.name \in DOMAIN router.tool_instances
        /\ router.tool_instances[rt_call.name] = rt_call.instance
        /\ \E i \in 1..Len(rt_call.instance.dir) :
             /\ rt_call.instance.dir[i].property
             /\ Head(rt_call.instance.dir[i].name) # "_"
             /\ DOMAIN router.tool_methods
                  = DOMAIN rt_before.tool_methods
                    \cup { rt_call.name \o <<".">> \o m :
                             m \in PublicCallablesBefore(rt_call.instance, i) }
        /\ \A k \in DOMAIN rt_before.tool_methods :
             router.tool_methods[k] = rt_before.tool_methods[k]
        /\ \A instance \in RouterInstances :
             LET again == register_tool_instance(router, rt_call.name, instance, 0)
             IN  /\ again.raised
                 /\ again.error = DuplicateError(rt_call.name)
                 /\ again.router = router

\* the property between two methods raised: the first method is a key, the
\* second is not, and the name is taken
C29_Witness ==
    /\ rt_call.op = "register"
    /\ rt_end.raised
    /\ rt_call.instance = PropTool
    /\ rt_call.name \in DOMAIN router.tool_instances
    /\ rt_call.name \o <<".", "alpha">> \in DOMAIN router.tool_methods
    /\ rt_call.name \o <<".", "gamma">> \notin DOMAIN router.tool_methods
    /\ rt_call.name \o <<".", "alpha">> \notin DOMAIN rt_before.tool_methods

(***************************************************************************)
(* C30: start and stop in any order                                        *)
(***************************************************************************)
AliveThreads == { t \in 1..Len(threads) : IsAlive(t) }

\* the caller's thread moves on from the statement at pc
CallerLeaves(at) == dots_pc = at /\ dots_pc' # at

\* C30: whatever start and stop calls one caller makes, at most one worker
\* is alive and it is the one stored in _thread; start with a live worker
\* and stop without one return at once and change nothing; a thread is
\* launched only by start, with no worker alive and the event cleared, and
\* stands before its first test; a worker leaves its loop only when the
\* event is set, and only stop sets the event.
C30_AtMostOneWorker ==
    /\ [](/\ Cardinality(AliveThreads) <= 1
          /\ \A t \in AliveThreads : t = thread)
    /\ [][(CallerLeaves("start_check") /\ IsAlive(thread)) =>
            (dots_pc' = "return" /\ UNCHANGED <<stop_event, thread, threads, console>>)]_vars
    /\ [][(CallerLeaves("stop_check") /\ ~IsAlive(thread)) =>
            (dots_pc' = "return" /\ UNCHANGED <<stop_event, thread, threads, console>>)]_vars
    /\ [][(threads' # threads /\ Len(threads') # Len(threads)) =>
            /\ dots_pc \in {"start_thread"}
            /\ AliveThreads = {}
            /\ ~stop_event /\ ~stop_event'
            /\ threads' = Append(threads, [pc |-> "test", dots_count |-> 0,
                                           last |-> "none"])
            /\ thread' = Len(threads')]_vars
    /\ [][\A t \in 1..Len(threads) :
            (threads[t].pc \notin {"clear", "dead"}
                /\ threads'[t].pc \in {"clear", "dead"}) => stop_event]_vars
    /\ [][(~stop_event /\ stop_event') => dots_pc = "stop_set"]_vars
    /\ [][(stop_event /\ ~stop_event') => dots_pc = "start_clear"]_vars

\* after start, stop, start: the first worker has terminated, the second is
\* drawing dots with the event cleared, and the second start has returned
C30_Witness ==
    /\ Len(threads) = 2
    /\ threads[1].pc = "dead"
    /\ threads[1].last = "clear"
    /\ thread = 2
    /\ threads[2].pc = "sleep"
    /\ threads[2].last = "line"
    /\ ~stop_event
    /\ dots_pc = "none"

(***************************************************************************)
(* C31: text that parses as JSON but not as a mapping                      *)
(***************************************************************************)
\* the callable of the last call returned text that json.loads accepts and
\* that is a number, a string, a list, a boolean or null
ReturnedNonObjectJson ==
    /\ RoutingSucceeded
    /\ call.value.kind = "str"
    /\ JsonLoads(call.value.str).ok
    /\ JsonLoads(call.value.str).val.kind \in {"num", "str", "arr", "lit"}

====
